---- MODULE Spec2Model ----
(***************************************************************************)
(* A model of dreadcabinet's structured-input date-path parser, date-range *)
(* filter, structured walker and output path/filename constructor.         *)
(*                                                                         *)
(* Strings are sequences of one-character strings, so that splitting,      *)
(* parseInt, extension stripping and formatting are computed, not assumed. *)
(* A Date is its instant in minutes since 1970-01-01T00:00Z (the program   *)
(* never looks below the minute); an Invalid Date is the value NaN.        *)
(* A timezone is its fixed offset from UTC in minutes.                     *)
(***************************************************************************)
EXTENDS Integers, Sequences, FiniteSets, TLC

\* ------------------------------------------------------------------------
\* Bounds of the model
\* ------------------------------------------------------------------------

\* the encoder is exercised on every year in FirstYear .. FirstYear + YearSpan
YearSpan == 1

\* ------------------------------------------------------------------------
\* Characters and strings
\* ------------------------------------------------------------------------

DigitChars == <<"0", "1", "2", "3", "4", "5", "6", "7", "8", "9">>

IsDigit(c) == \E i \in 1..10 : DigitChars[i] = c

DigitVal(c) == (CHOOSE i \in 1..10 : DigitChars[i] = c) - 1

\* the letters that occur in the model's strings (\p{L})
IsLetter(c) == c \in {"a", "b", "c", "d", "e", "h", "l", "m", "s", "t", "u", "i", "n", "x"}

\* [\p{L}\p{N}]
IsAlnum(c) == IsDigit(c) \/ IsLetter(c)

\* the result of a numeric conversion that found no number
NaN == -1000000000

isNaN(x) == x = NaN

\* String.prototype.split(sep) for a separator that is one character of seps
RECURSIVE SplitFrom(_, _, _, _)
SplitFrom(s, seps, i, cur) ==
    IF i > Len(s) THEN << cur >>
    ELSE IF s[i] \in seps THEN << cur >> \o SplitFrom(s, seps, i + 1, << >>)
    ELSE SplitFrom(s, seps, i + 1, Append(cur, s[i]))

Split(s, seps) == SplitFrom(s, seps, 1, << >>)

\* Array.prototype.join(sep)
RECURSIVE Join(_, _)
Join(parts, sep) ==
    IF Len(parts) = 0 THEN << >>
    ELSE IF Len(parts) = 1 THEN parts[1]
    ELSE parts[1] \o sep \o Join(Tail(parts), sep)

\* parseInt(s, 10): leading whitespace, an optional sign, then the longest
\* run of decimal digits; NaN when there is no digit there
RECURSIVE DigitsValue(_, _, _)
DigitsValue(s, i, acc) ==
    IF i > Len(s) \/ ~IsDigit(s[i]) THEN acc
    ELSE DigitsValue(s, i + 1, acc * 10 + DigitVal(s[i]))

RECURSIVE SkipSpaces(_, _)
SkipSpaces(s, i) == IF i <= Len(s) /\ s[i] = " " THEN SkipSpaces(s, i + 1) ELSE i

ParseDigitsAt(s, j, negative) ==
    IF j > Len(s) \/ ~IsDigit(s[j]) THEN NaN
    ELSE IF negative THEN 0 - DigitsValue(s, j, 0)
    ELSE DigitsValue(s, j, 0)

ParseSignAt(s, i) ==
    IF i <= Len(s) /\ s[i] \in {"-", "+"}
    THEN ParseDigitsAt(s, i + 1, s[i] = "-")
    ELSE ParseDigitsAt(s, i, FALSE)

parseInt(s) == ParseSignAt(s, SkipSpaces(s, 1))

\* a number as decimal digits, left-padded with zeros to the given width
RECURSIVE ToDigits(_)
ToDigits(n) == IF n < 10 THEN << DigitChars[n + 1] >>
               ELSE Append(ToDigits(n \div 10), DigitChars[(n % 10) + 1])

RECURSIVE PadLeft(_, _)
PadLeft(s, width) == IF Len(s) >= width THEN s ELSE PadLeft(<< "0" >> \o s, width)

\* String.prototype.substring(from, to), indices counted from 0
Substring(s, from, to) ==
    LET hi == IF to > Len(s) THEN Len(s) ELSE to
    IN  IF from >= hi THEN << >> ELSE SubSeq(s, from + 1, hi)

\* s.replace(/^[^\p{L}\p{N}]+|[^\p{L}\p{N}]+$/gu, '')
RECURSIVE DropLeadingNonAlnum(_)
DropLeadingNonAlnum(s) ==
    IF Len(s) > 0 /\ ~IsAlnum(s[1]) THEN DropLeadingNonAlnum(Tail(s)) ELSE s

RECURSIVE DropTrailingNonAlnum(_)
DropTrailingNonAlnum(s) ==
    IF Len(s) > 0 /\ ~IsAlnum(s[Len(s)])
    THEN DropTrailingNonAlnum(SubSeq(s, 1, Len(s) - 1)) ELSE s

CleanDateStr(s) == DropTrailingNonAlnum(DropLeadingNonAlnum(s))

\* node:path extname of a single path component: from its last dot on, and
\* empty when there is no dot or the only dot leads the name
LastDot(s) == IF \E i \in 1..Len(s) : s[i] = "."
              THEN CHOOSE i \in 1..Len(s) :
                       s[i] = "." /\ \A j \in (i + 1)..Len(s) : s[j] # "."
              ELSE 0

ExtFrom(s, dot) == IF dot <= 1 THEN << >> ELSE SubSeq(s, dot, Len(s))

extname(s) == ExtFrom(s, LastDot(s))

\* node:path basename(name, ext) of a single path component
basename(s, ext) ==
    IF Len(ext) > 0 /\ Len(ext) < Len(s)
       /\ SubSeq(s, Len(s) - Len(ext) + 1, Len(s)) = ext
    THEN SubSeq(s, 1, Len(s) - Len(ext))
    ELSE s

\* node:path join of a root and further components (POSIX separator)
PathSep == "/"

PathJoin(parts) == Join(parts, << PathSep >>)

\* ------------------------------------------------------------------------
\* The calendar: JavaScript Date in UTC, dayjs format in a timezone
\* ------------------------------------------------------------------------

MinutesPerDay == 1440

IsLeapYear(y) == (y % 4 = 0 /\ y % 100 # 0) \/ y % 400 = 0

DaysInMonth(y, m) ==
    IF m = 2 THEN (IF IsLeapYear(y) THEN 29 ELSE 28)
    ELSE IF m \in {4, 6, 9, 11} THEN 30 ELSE 31

\* days from 1970-01-01 to the civil date y-m-d (proleptic Gregorian): the
\* year counted from 1 March, its era of 400 years and its year of the era
DaysOfEra(era, yoe, doy) ==
    era * 146097 + (yoe * 365 + yoe \div 4 - yoe \div 100 + doy) - 719468

DaysFromMarchYear(yy, mp, d) ==
    DaysOfEra(yy \div 400, yy % 400, (153 * mp + 2) \div 5 + d - 1)

DaysFromCivil(y, m, d) ==
    DaysFromMarchYear(IF m <= 2 THEN y - 1 ELSE y, IF m > 2 THEN m - 3 ELSE m + 9, d)

\* the civil date of a day number, computed in stages: the era of 400 years,
\* the day of the era, the year of the era, the day of the year (counted
\* from 1 March), the month (counted from March)
CivilOfMonth(yearFromMarch, doy, mp) ==
    [year  |-> yearFromMarch + (IF mp < 10 THEN 0 ELSE 1),
     month |-> IF mp < 10 THEN mp + 3 ELSE mp - 9,
     day   |-> doy - (153 * mp + 2) \div 5 + 1]

CivilOfDayOfYear(yearFromMarch, doy) ==
    CivilOfMonth(yearFromMarch, doy, (5 * doy + 2) \div 153)

CivilOfYearOfEra(era, doe, yoe) ==
    CivilOfDayOfYear(yoe + era * 400, doe - (365 * yoe + yoe \div 4 - yoe \div 100))

CivilOfDayOfEra(era, doe) ==
    CivilOfYearOfEra(era, doe,
        (doe - doe \div 1460 + doe \div 36524 - doe \div 146096) \div 365)

CivilOfShifted(zz) == CivilOfDayOfEra(zz \div 146097, zz % 146097)

CivilFromDays(z) == CivilOfShifted(z + 719468)

\* Date.UTC(y, mo, d, h, mi), mo counted from 0: a day past the month's end
\* rolls into the next month, and a year in 0..99 means 1900 + year
DateUTC(y, mo, d, h, mi) ==
    (DaysFromCivil(IF 0 <= y /\ y <= 99 THEN 1900 + y ELSE y, mo + 1, 1) + d - 1)
        * MinutesPerDay + h * 60 + mi

\* the calendar fields of an instant shifted by an offset (offset 0: getUTC*)
FieldsOf(civil, minuteOfDay) ==
    [year |-> civil.year, month |-> civil.month, day |-> civil.day,
     hour |-> minuteOfDay \div 60, minute |-> minuteOfDay % 60]

FieldsAt(t, offset) ==
    FieldsOf(CivilFromDays((t + offset) \div MinutesPerDay), (t + offset) % MinutesPerDay)

getUTCFields(t) == FieldsAt(t, 0)

\* dayjs.tz(date, timezone).format(fmt) for the format tokens the program uses
DashStr == << "-" >>

FormatFields(f, fmt) ==
    CASE fmt = "YYYY"     -> PadLeft(ToDigits(f.year), 4)
      [] fmt = "M"        -> ToDigits(f.month)
      [] fmt = "D"        -> ToDigits(f.day)
      [] fmt = "YYYY-M-D" -> PadLeft(ToDigits(f.year), 4) \o DashStr \o ToDigits(f.month)
                             \o DashStr \o ToDigits(f.day)
      [] fmt = "M-D"      -> ToDigits(f.month) \o DashStr \o ToDigits(f.day)
      [] fmt = "HHmm"     -> PadLeft(ToDigits(f.hour), 2) \o PadLeft(ToDigits(f.minute), 2)

DatesFormat(t, offset, fmt) == FormatFields(FieldsAt(t, offset), fmt)

\* ------------------------------------------------------------------------
\* Decoding: src/input/structured.ts
\* ------------------------------------------------------------------------

\* an optional argument that was not passed
Undefined == -2000000000

NullDate == [kind |-> "null", t |-> 0]

SomeDate(t) == [kind |-> "date", t |-> t]

Thrown == [kind |-> "throw", t |-> 0]

\* x - 1 in JavaScript arithmetic
MinusOne(x) == IF isNaN(x) THEN NaN ELSE x - 1

ZeroIfNaN(x) == IF isNaN(x) THEN 0 ELSE x

\* lines 145-150 of parseDateFromString: the Date is returned only if its
\* UTC fields are the components it was made from
SameComponents(date, f, y, mo, d, h, mi) ==
    IF f.year # y \/ f.month - 1 # mo \/ f.day # d \/ f.hour # h \/ f.minute # mi
    THEN NullDate
    ELSE SomeDate(date)

\* a variant that trusts Date.UTC and skips the comparison
DoubleCheckedSkipped(date, y, mo, d, h, mi) == SomeDate(date)

DoubleChecked(date, y, mo, d, h, mi) ==
    SameComponents(date, getUTCFields(date), y, mo, d, h, mi)

\* lines 123-143 of parseDateFromString, after the switch has set the fields:
\* the NaN test and the range test throw into the function's own catch,
\* which returns null
ValidatedDate(y, mo, d, h, mi) ==
    IF isNaN(y) \/ isNaN(mo) \/ isNaN(d) THEN NullDate
    ELSE IF mo < 0 \/ mo > 11 \/ d < 1 \/ d > 31
            \/ h < 0 \/ h > 23 \/ mi < 0 \/ mi > 59 THEN NullDate
    ELSE DoubleChecked(DateUTC(y, mo, d, h, mi), y, mo, d, h, mi)

DateFromComponents(c) == ValidatedDate(c.y, c.mo, c.d, ZeroIfNaN(c.h), ZeroIfNaN(c.mi))

\* the hour and the minute read from a time token
HourOf(tok) == parseInt(Substring(tok, 0, 2))

MinuteOf(tok) == parseInt(Substring(tok, 2, 4))

\* the components the switch of parseDateFromString reads from the parts
\* of the cleaned string, or nothing when it returns null there
NoComponents == [ok |-> FALSE, y |-> 0, mo |-> 0, d |-> 0, h |-> 0, mi |-> 0]

Components(y, mo, d, h, mi) == [ok |-> TRUE, y |-> y, mo |-> mo, d |-> d, h |-> h, mi |-> mi]

WithTime(y, mo, d, shouldParseTime, parts, at) ==
    IF shouldParseTime
    THEN Components(y, mo, d, HourOf(parts[at]), MinuteOf(parts[at]))
    ELSE Components(y, mo, d, 0, 0)

SwitchOnFormat(parts, format, shouldParseTime, year, month, day) ==
    CASE format = "YYYY-M-D-HHmm" ->
            IF Len(parts) < 4 /\ shouldParseTime THEN NoComponents
            ELSE IF Len(parts) < 3 /\ ~shouldParseTime THEN NoComponents
            ELSE IF shouldParseTime /\ Len(parts[4]) < 4 THEN NoComponents
            ELSE WithTime(parseInt(parts[1]), MinusOne(parseInt(parts[2])),
                          parseInt(parts[3]), shouldParseTime, parts, 4)
      [] format = "M-D-HHmm" ->
            IF year = Undefined THEN NoComponents
            ELSE IF Len(parts) < 3 /\ shouldParseTime THEN NoComponents
            ELSE IF Len(parts) < 2 /\ ~shouldParseTime THEN NoComponents
            ELSE IF shouldParseTime /\ Len(parts[3]) < 4 THEN NoComponents
            ELSE WithTime(year, MinusOne(parseInt(parts[1])), parseInt(parts[2]),
                          shouldParseTime, parts, 3)
      [] format = "D-HHmm" ->
            IF year = Undefined \/ month = Undefined THEN NoComponents
            ELSE IF Len(parts) < 2 /\ shouldParseTime THEN NoComponents
            ELSE IF Len(parts) < 1 /\ ~shouldParseTime THEN NoComponents
            ELSE IF shouldParseTime /\ Len(parts[2]) < 4 THEN NoComponents
            ELSE WithTime(year, month, parseInt(parts[1]), shouldParseTime, parts, 2)
      [] format = "HHmm" ->
            IF year = Undefined \/ month = Undefined \/ day = Undefined THEN NoComponents
            ELSE IF shouldParseTime /\ Len(parts[1]) # 4 THEN NoComponents
            ELSE WithTime(year, month, day, shouldParseTime, parts, 1)
      [] OTHER -> NoComponents

DateFromSwitch(c) == IF c.ok THEN DateFromComponents(c) ELSE NullDate

parseDateFromString(dateStr, format, shouldParseTime, year, month, day) ==
    IF Len(dateStr) = 0 THEN NullDate
    ELSE DateFromSwitch(SwitchOnFormat(Split(CleanDateStr(dateStr), {"-", "_"}),
                                       format, shouldParseTime, year, month, day))

Structures == {"none", "year", "month", "day"}

\* the switch of parseDateFromFilePath on the structure: what is read from
\* the path, what format the filename stem is parsed with, or "warn" (null is
\* returned after a warning) or "throw" (unknown structure)
PathCase(kind, format, year, month, day) ==
    [kind |-> kind, format |-> format, year |-> year, month |-> month, day |-> day]

MonthCase(year, monthDir) ==
    IF ~isNaN(year) /\ ~isNaN(monthDir) /\ monthDir >= 1 /\ monthDir <= 12
    THEN PathCase("parse", "D-HHmm", year, monthDir - 1, Undefined)
    ELSE PathCase("warn", "", 0, 0, 0)

DayCase(year, monthDir, day) ==
    IF ~isNaN(year) /\ ~isNaN(monthDir) /\ monthDir >= 1 /\ monthDir <= 12
       /\ ~isNaN(day) /\ day >= 1 /\ day <= 31
    THEN PathCase("parse", "HHmm", year, monthDir - 1, day)
    ELSE PathCase("warn", "", 0, 0, 0)

YearCase(year) ==
    IF ~isNaN(year) THEN PathCase("parse", "M-D-HHmm", year, Undefined, Undefined)
    ELSE PathCase("warn", "", 0, 0, 0)

SwitchOnStructure(pathParts, structure) ==
    CASE structure = "none" ->
            PathCase("parse", "YYYY-M-D-HHmm", Undefined, Undefined, Undefined)
      [] structure = "year" ->
            IF Len(pathParts) >= 1 THEN YearCase(parseInt(pathParts[1]))
            ELSE PathCase("warn", "", 0, 0, 0)
      [] structure = "month" ->
            IF Len(pathParts) >= 2
            THEN MonthCase(parseInt(pathParts[1]), parseInt(pathParts[2]))
            ELSE PathCase("warn", "", 0, 0, 0)
      [] structure = "day" ->
            IF Len(pathParts) >= 3
            THEN DayCase(parseInt(pathParts[1]), parseInt(pathParts[2]), parseInt(pathParts[3]))
            ELSE PathCase("warn", "", 0, 0, 0)
      [] OTHER -> PathCase("throw", "", 0, 0, 0)

ParseInCase(c, filenameWithoutExt, shouldParseTime) ==
    CASE c.kind = "throw" -> Thrown
      [] c.kind = "warn"  -> NullDate
      [] OTHER -> parseDateFromString(filenameWithoutExt, c.format, shouldParseTime,
                                      c.year, c.month, c.day)

\* relativePath and filename are strings; the result is a date, null, or the
\* error thrown for an unknown structure
parseDateFromFilePath(relativePath, filename, structure, shouldParseTime) ==
    ParseInCase(SwitchOnStructure(Split(relativePath, {PathSep}), structure),
                basename(filename, extname(filename)), shouldParseTime)

\* ------------------------------------------------------------------------
\* Encoding: the output constructor (src/output.ts, here src/unnamed/part_005)
\* ------------------------------------------------------------------------

\* a configuration field that is not set
Unset == "unset"

Failure(msg) == [threw |-> TRUE, value |-> << >>, error |-> msg]

Success(v) == [threw |-> FALSE, value |-> v, error |-> ""]

\* a variant that repeats the year in the filename under structure 'year'
formatDateYearRepeated(date, outputStructure, timezone) ==
    IF outputStructure = Unset
    THEN Failure("Unable to Create Output: Output structure is not set")
    ELSE CASE outputStructure \in {"none", "year"} ->
                Success(DatesFormat(date, timezone, "YYYY-M-D"))
           [] outputStructure = "month" -> Success(DatesFormat(date, timezone, "D"))
           [] outputStructure = "day"   ->
                Failure("Cannot use date in filename when output structure is day")
           [] OTHER -> Success(<< >>)

\* a variant that formats the day of the month under structure 'day'
formatDateDayAllowed(date, outputStructure, timezone) ==
    IF outputStructure = Unset
    THEN Failure("Unable to Create Output: Output structure is not set")
    ELSE CASE outputStructure = "none"  -> Success(DatesFormat(date, timezone, "YYYY-M-D"))
           [] outputStructure = "year"  -> Success(DatesFormat(date, timezone, "M-D"))
           [] outputStructure \in {"month", "day"} ->
                Success(DatesFormat(date, timezone, "D"))
           [] OTHER -> Success(<< >>)

\* formatDate(date, outputStructure), with the closure's timezone
formatDate(date, outputStructure, timezone) ==
    IF outputStructure = Unset
    THEN Failure("Unable to Create Output: Output structure is not set")
    ELSE CASE outputStructure = "none"  -> Success(DatesFormat(date, timezone, "YYYY-M-D"))
           [] outputStructure = "year"  -> Success(DatesFormat(date, timezone, "M-D"))
           [] outputStructure = "month" -> Success(DatesFormat(date, timezone, "D"))
           [] outputStructure = "day"   ->
                Failure("Cannot use date in filename when output structure is day")
           \* no case of the switch: undefined, which join() renders empty
           [] OTHER -> Success(<< >>)

\* str.replace(/[^a-zA-Z0-9\-_.]/g, '_')
ReplaceUnsafe(str) ==
    [i \in 1..Len(str) |->
        IF IsAlnum(str[i]) \/ str[i] \in {"-", "_", "."} THEN str[i] ELSE "_"]

\* a variant that leaves runs of underscores as they are
CollapseUnderscoresSkipped(str) == str

\* .replace(/_+/g, '_')
RECURSIVE CollapseUnderscores(_)
CollapseUnderscores(str) ==
    IF Len(str) <= 1 THEN str
    ELSE IF str[1] = "_" /\ str[2] = "_" THEN CollapseUnderscores(Tail(str))
    ELSE << str[1] >> \o CollapseUnderscores(Tail(str))

\* .replace(/^_+|_+$/g, '')
RECURSIVE TrimUnderscores(_)
TrimUnderscores(str) ==
    IF Len(str) > 0 /\ str[1] = "_" THEN TrimUnderscores(Tail(str))
    ELSE IF Len(str) > 0 /\ str[Len(str)] = "_"
    THEN TrimUnderscores(SubSeq(str, 1, Len(str) - 1))
    ELSE str

UntitledStr == << "u", "n", "t", "i", "t", "l", "e", "d" >>

\* a variant that leaves the empty string
ReplaceEmptySkipped(str) == str

\* .replace(/^$/, 'untitled')
ReplaceEmpty(str) == IF Len(str) = 0 THEN UntitledStr ELSE str

sanitizeFilenameString(str) ==
    ReplaceEmpty(TrimUnderscores(CollapseUnderscores(ReplaceUnsafe(str))))

\* Array.prototype.includes on the configured option list
Includes(list, x) == \E i \in 1..Len(list) : list[i] = x

\* a variant for which a configuration without an option list requests
\* every fragment
IncludesUnlessConfigured(config, x) ==
    "outputFilenameOptions" \in DOMAIN config => Includes(config.outputFilenameOptions, x)

\* outputFilenameOptions?.includes(x): not so when the configuration has no
\* option list
OptionalIncludes(config, x) ==
    "outputFilenameOptions" \in DOMAIN config /\ Includes(config.outputFilenameOptions, x)

\* options.subject || ''
SubjectOrEmpty(options) ==
    IF "subject" \in DOMAIN options THEN options.subject ELSE << >>

\* a variant that puts the subject before the identifier
FilenamePartsSubjectFirst(config, dateParts, timeStr, type, hash, subject) ==
    Success(Join(dateParts
                 \o (IF OptionalIncludes(config, "time") THEN << timeStr >> ELSE << >>)
                 \o (IF OptionalIncludes(config, "subject")
                     THEN << sanitizeFilenameString(subject) >> ELSE << >>)
                 \o << hash, type >>,
                 DashStr))

\* constructFilename(date, type, hash, options) under a configuration
\* [outputDirectory, outputStructure, outputFilenameOptions, timezone], whose
\* option list may be missing; options is {} or {subject}
\* lines 64-81 of constructFilename, after the date part has been pushed
FilenameParts(config, dateParts, timeStr, type, hash, subject) ==
    Success(Join(dateParts
                 \o (IF OptionalIncludes(config, "time") THEN << timeStr >> ELSE << >>)
                 \o << hash, type >>
                 \o (IF OptionalIncludes(config, "subject")
                     THEN << sanitizeFilenameString(subject) >> ELSE << >>),
                 DashStr))

\* lines 59-62 of constructFilename: the error formatDate throws leaves it
FilenameWithDate(config, dateStr, timeStr, type, hash, subject) ==
    IF dateStr.threw THEN dateStr
    ELSE FilenameParts(config, << dateStr.value >>, timeStr, type, hash, subject)

constructFilename(config, date, type, hash, options) ==
    IF OptionalIncludes(config, "date")
    THEN FilenameWithDate(config,
                          formatDate(date, config.outputStructure, config.timezone),
                          DatesFormat(date, config.timezone, "HHmm"), type, hash,
                          SubjectOrEmpty(options))
    ELSE FilenameParts(config, << >>,
                       DatesFormat(date, config.timezone, "HHmm"), type, hash,
                       SubjectOrEmpty(options))

\* a variant that nests the day above the month
SwitchOnOutputStructureDayFirst(root, outputStructure, year, month, day) ==
    CASE outputStructure = "year"  -> PathJoin(<< root, year >>)
      [] outputStructure = "month" -> PathJoin(<< root, year, month >>)
      [] outputStructure = "day"   -> PathJoin(<< root, year, day, month >>)
      [] OTHER -> root

\* the switch of constructOutputDirectory (lines 102-115)
SwitchOnOutputStructure(root, outputStructure, year, month, day) ==
    CASE outputStructure = "year"  -> PathJoin(<< root, year >>)
      [] outputStructure = "month" -> PathJoin(<< root, year, month >>)
      [] outputStructure = "day"   -> PathJoin(<< root, year, month, day >>)
      [] OTHER -> root

\* the path constructOutputDirectory builds (lines 97-115)
OutputPath(config, creationTime) ==
    SwitchOnOutputStructure(config.outputDirectory, config.outputStructure,
                            DatesFormat(creationTime, config.timezone, "YYYY"),
                            DatesFormat(creationTime, config.timezone, "M"),
                            DatesFormat(creationTime, config.timezone, "D"))

\* a variant that goes on without a configured structure
constructOutputDirectoryUnchecked(config, creationTime) ==
    IF config.outputDirectory = << >>
    THEN Failure("Unable to Create Output: Output directory is not set")
    ELSE Success(SwitchOnOutputStructure(config.outputDirectory, config.outputStructure,
                                         << "y" >>, << "m" >>, << "d" >>))

\* constructOutputDirectory(creationTime): the error it throws or the path it
\* returns (the directory creation it starts is modelled by the action that
\* uses this)
constructOutputDirectory(config, creationTime) ==
    IF config.outputDirectory = << >>
    THEN Failure("Unable to Create Output: Output directory is not set")
    ELSE IF config.outputStructure = Unset
    THEN Failure("Unable to Create Output: Output structure is not set")
    ELSE Success(OutputPath(config, creationTime))

\* node:path relative(from, to) for a path `to` that lies under `from`
PathRelative(from, to) ==
    IF Len(to) > Len(from) /\ SubSeq(to, 1, Len(from)) = from /\ to[Len(from) + 1] = PathSep
    THEN SubSeq(to, Len(from) + 2, Len(to))
    ELSE << >>

\* ------------------------------------------------------------------------
\* The date-range filter: src/input/structured.ts
\* ------------------------------------------------------------------------

\* the length in days of the default window
DefaultWindowDays == 31

NoRange == [present |-> FALSE, start |-> Undefined, end |-> Undefined]

Range(start, end) == [present |-> TRUE, start |-> start, end |-> end]

\* date < other and date >= other on Date objects: both are false when either
\* side is an Invalid Date
DateLess(a, b) == ~isNaN(a) /\ ~isNaN(b) /\ a < b

DateGreaterEq(a, b) == ~isNaN(a) /\ ~isNaN(b) /\ a >= b

\* a variant whose end bound is inclusive
isDateInRangeEndInclusive(date, range) ==
    IF ~range.present \/ (range.start = Undefined /\ range.end = Undefined) THEN TRUE
    ELSE LET isStartDateValid == range.start # Undefined /\ ~isNaN(range.start)
             isEndDateValid   == range.end # Undefined /\ ~isNaN(range.end)
         IN  IF isStartDateValid /\ DateLess(date, range.start) THEN FALSE
             ELSE IF isEndDateValid /\ DateLess(range.end, date) THEN FALSE
             ELSE TRUE

\* a variant that rejects every date when a bound is an Invalid Date
isDateInRangeStrictBounds(date, range) ==
    IF ~range.present \/ (range.start = Undefined /\ range.end = Undefined) THEN TRUE
    ELSE IF (range.start # Undefined /\ isNaN(range.start))
            \/ (range.end # Undefined /\ isNaN(range.end)) THEN FALSE
    ELSE IF range.start # Undefined /\ DateLess(date, range.start) THEN FALSE
    ELSE IF range.end # Undefined /\ DateGreaterEq(date, range.end) THEN FALSE
    ELSE TRUE

isDateInRange(date, range) ==
    IF ~range.present \/ (range.start = Undefined /\ range.end = Undefined) THEN TRUE
    ELSE LET isStartDateValid == range.start # Undefined /\ ~isNaN(range.start)
             isEndDateValid   == range.end # Undefined /\ ~isNaN(range.end)
         IN  IF isStartDateValid /\ DateLess(date, range.start) THEN FALSE
             ELSE IF isEndDateValid /\ DateGreaterEq(date, range.end) THEN FALSE
             ELSE TRUE

\* dateUtil.subDays(date, days)
subDays(date, days) == date - days * MinutesPerDay

\* dateUtil.isBefore(date, other)
isBefore(date, other) == DateLess(date, other)

RangeResult(threw, error, start, end) ==
    [threw |-> threw, error |-> error, start |-> start, end |-> end]

\* a variant without the order check of line 207
calculateDateRangeNoOrderCheck(now, startDate, endDate) ==
    LET start == IF startDate # Undefined THEN startDate ELSE subDays(now, DefaultWindowDays)
        end   == IF endDate # Undefined THEN endDate ELSE now
    IN  IF endDate # Undefined /\ isNaN(endDate)
        THEN RangeResult(TRUE, "Invalid date", Undefined, Undefined)
        ELSE IF startDate # Undefined /\ isNaN(startDate)
        THEN RangeResult(TRUE, "Invalid date", Undefined, Undefined)
        ELSE RangeResult(FALSE, "", start, end)

\* a variant whose default start is 31 days before the resolved end
calculateDateRangeWindowFromEnd(now, startDate, endDate) ==
    LET end   == IF endDate # Undefined THEN endDate ELSE now
        start == IF startDate # Undefined THEN startDate ELSE subDays(end, DefaultWindowDays)
    IN  IF endDate # Undefined /\ isNaN(endDate)
        THEN RangeResult(TRUE, "Invalid date", Undefined, Undefined)
        ELSE IF startDate # Undefined /\ isNaN(startDate)
        THEN RangeResult(TRUE, "Invalid date", Undefined, Undefined)
        ELSE IF (startDate # Undefined \/ endDate # Undefined) /\ isBefore(end, start)
        THEN RangeResult(TRUE, "ArgumentError --start", Undefined, Undefined)
        ELSE RangeResult(FALSE, "", start, end)

\* calculateDateRange(timezone, startDate, endDate) evaluated at the instant
\* now: dateUtil.parse of a Date returns the same instant and throws for an
\* Invalid Date
calculateDateRange(now, startDate, endDate) ==
    LET start == IF startDate # Undefined THEN startDate ELSE subDays(now, DefaultWindowDays)
        end   == IF endDate # Undefined THEN endDate ELSE now
    IN  IF endDate # Undefined /\ isNaN(endDate)
        THEN RangeResult(TRUE, "Invalid date", Undefined, Undefined)
        ELSE IF startDate # Undefined /\ isNaN(startDate)
        THEN RangeResult(TRUE, "Invalid date", Undefined, Undefined)
        ELSE IF (startDate # Undefined \/ endDate # Undefined) /\ isBefore(end, start)
        THEN RangeResult(TRUE, "ArgumentError --start", Undefined, Undefined)
        ELSE RangeResult(FALSE, "", start, end)

\* ------------------------------------------------------------------------
\* State
\* ------------------------------------------------------------------------

VARIABLES
    codecPc,     \* the codec run: "encode", "ready" (a path to decode), "decoded"
    codecIn,     \* its inputs: a date and a configuration, or a hand-made path
    codecPath,   \* [relativePath, filename] handed to parseDateFromFilePath
    codecOut,    \* what parseDateFromFilePath returned
    rangePc,     \* the range-filter run: "call", then "returned"
    rangeIn,     \* the call: isDateInRange(date, range) or calculateDateRange(...)
    rangeOut,    \* what the call returned
    walkPc,      \* process(): "init", "spawning", "running", "resolved", "rejected"
    walkIn,      \* the arguments of process() and what glob will find
    dateRange,   \* process(): the range calculateDateRange returned
    limit,       \* forEachFileIn: options.limit || files.length
    concurrency, \* forEachFileIn: options.concurrency || 1
    fileQueue,   \* forEachFileIn: the paths not yet taken by a worker
    filesProcessed, \* forEachFileIn: per-file callbacks that have completed
    workers,     \* forEachFileIn: each worker's position and current file
    considered,  \* the paths handed to the per-file step, in order
    hostCalls,   \* the invocations of the host's callback: file, date, state
    errorsLogged, \* calls of logger.error
    fileCount,   \* process(): files counted as processed
    walkResult,  \* the count process() resolved with
    namePc,      \* the filename run: "call", then "returned" or "threw"
    nameIn,      \* its configuration and the arguments of constructFilename
    nameOut,     \* what constructFilename returned, or the error it threw
    cfgPc,       \* validate(): "call", its awaits, "resolved" or "rejected"; then "constructed"
    cfgIn,       \* the configuration, the enabled features and what the filesystem holds
    cfgErr,      \* the error validate() rejected with
    cfgOut,      \* what the output constructor gave for the validated configuration
    dirPc,       \* constructOutputDirectory: "call", then "returned" or "threw"
    dirIn,       \* its configuration and creationTime
    dirOut,      \* the path it returned or the error it threw
    mkdirs,      \* the calls of storage.createDirectory: path and state
    fePc,        \* forEachFileIn's promise: "call", "spawning", "pending", "fulfilled", "rejected"
    feIn,        \* its options and the files glob yields
    feQueue,     \* the paths not yet taken by a worker
    feProcessed, \* filesProcessed
    feWorkers,   \* each worker's position
    feCalls,     \* the invocations of the callback: path and state
    sanPc,       \* the sanitizer run: "call", "once", "twice"
    sanIn,       \* the string given to sanitizeFilenameString
    sanOut       \* its results: of the string, and of that result

codecVars == << codecPc, codecIn, codecPath, codecOut >>

rangeVars == << rangePc, rangeIn, rangeOut >>

walkVars == << walkPc, walkIn, dateRange, limit, concurrency, fileQueue, filesProcessed,
               workers, considered, hostCalls, errorsLogged, fileCount, walkResult >>

nameVars == << namePc, nameIn, nameOut >>

cfgVars == << cfgPc, cfgIn, cfgErr, cfgOut >>

dirVars == << dirPc, dirIn, dirOut, mkdirs >>

feVars == << fePc, feIn, feQueue, feProcessed, feWorkers, feCalls >>

sanVars == << sanPc, sanIn, sanOut >>

vars == << codecPc, codecIn, codecPath, codecOut, rangePc, rangeIn, rangeOut,
           walkPc, walkIn, dateRange, limit, concurrency, fileQueue, filesProcessed,
           workers, considered, hostCalls, errorsLogged, fileCount, walkResult,
           namePc, nameIn, nameOut, cfgPc, cfgIn, cfgErr, cfgOut, dirPc, dirIn, dirOut,
           mkdirs, fePc, feIn, feQueue, feProcessed, feWorkers, feCalls, sanPc, sanIn, sanOut >>

\* ------------------------------------------------------------------------
\* The codec run: encode a date and decode it, or decode a hand-made path
\* ------------------------------------------------------------------------

FirstYear == 2023

\* timezones of the model, as offsets from UTC in minutes
TzOffsets == {-300, 0, 330}

EncodedDays == {1, 9, 10, 28, 29, 30, 31}

EncodedTimes == {<< 0, 0 >>, << 8, 30 >>, << 23, 59 >>}

\* the instants the encoder is given: real calendar dates only
EncodedDates ==
    { DateUTC(c[1], c[2] - 1, c[3], c[4][1], c[4][2]) :
        c \in { x \in (FirstYear..(FirstYear + YearSpan)) \X (1..12) \X EncodedDays \X EncodedTimes :
                  x[3] <= DaysInMonth(x[1], x[2]) } }

RootDir == << "/", "d" >>

HashStr == << "a", "b", "1" >>

TypeStr == << "e", "m", "l" >>

ExtStr == << ".", "m", "d" >>

\* the configuration of an encode/decode run: the date fragment is requested
\* wherever the structure allows it, the time fragment when time is parsed
CodecConfig(in) ==
    [outputDirectory |-> RootDir,
     outputStructure |-> in.structure,
     outputFilenameOptions |->
        (IF in.structure = "day" THEN << >> ELSE << "date" >>)
        \o (IF in.shouldParseTime THEN << "time" >> ELSE << >>),
     timezone |-> in.timezone]

\* tokens of hand-made paths
Str2(a, b) == << a, b >>

Str4(a, b, c, d) == << a, b, c, d >>

YearTokens == { Str4("2", "0", "2", "4"), Str4("2", "0", "2", "3"), << "x" >>,
                << "2", "0", "2", "4", "x" >> }

MonthTokens == { << "2" >>, Str2("0", "4"), Str2("1", "3"), << "0" >>, << "x" >> }

DayTokens == { Str2("2", "9"), Str2("3", "0"), Str2("3", "1"), Str2("3", "2"), << "0" >>,
               << "x" >>, << "1", "5", "a" >> }

TimeTokens == { Str4("0", "8", "3", "0"), << "8", "3", "0" >>, << "0", "8", "3", "0", "0" >>,
                Str4("a", "b", "c", "d"), Str4("2", "4", "6", "0"), Str4("0", "8", "6", "0"),
                Str4("2", "3", "5", "9") }

SuffixTokens == { << >>, Str4("t", "e", "s", "t") }

\* a hand-made path: the first nDirs of the tokens are directories, the rest
\* (and the suffix, when there is one) are joined into the filename stem
RawPath(tokens, nDirs, suffix) ==
    LET dirs     == SubSeq(tokens, 1, nDirs)
        inName   == SubSeq(tokens, nDirs + 1, Len(tokens))
                    \o (IF Len(suffix) > 0 THEN << suffix >> ELSE << >>)
        filename == Join(inName, DashStr) \o ExtStr
    IN  [relativePath |-> PathJoin(dirs \o << filename >>), filename |-> filename]

RawTokenLists ==
    { << y, m, d, t >> : y \in YearTokens, m \in MonthTokens, d \in DayTokens, t \in TimeTokens }
    \cup { << y, m, d >> : y \in YearTokens, m \in MonthTokens, d \in DayTokens }
    \cup { << y, m >> : y \in YearTokens, m \in MonthTokens }

NoPath == [relativePath |-> << >>, filename |-> << >>]

CodecInput(mode, structure, spt, tz, date) ==
    [mode |-> mode, structure |-> structure, shouldParseTime |-> spt,
     timezone |-> tz, date |-> date]

CodecInitEncode ==
    /\ codecPc = "encode"
    /\ \E s \in Structures, spt \in BOOLEAN, tz \in TzOffsets, date \in EncodedDates :
          codecIn = CodecInput("date", s, spt, tz, date)
    /\ codecPath = NoPath
    /\ codecOut = NullDate

CodecInitRaw ==
    /\ codecPc = "ready"
    /\ \E s \in Structures, spt \in BOOLEAN, toks \in RawTokenLists, suffix \in SuffixTokens :
          \E nDirs \in 0..(Len(toks) - 1) :
             /\ nDirs <= 3
             /\ codecIn = CodecInput("raw", s, spt, 0, 0)
             /\ codecPath = RawPath(toks, nDirs, suffix)
    /\ codecOut = NullDate

CodecIdle == codecPc = "idle" /\ codecIn = CodecInput("idle", "none", FALSE, 0, 0)
             /\ codecPath = NoPath /\ codecOut = NullDate

CodecInit == CodecInitEncode \/ CodecInitRaw

\* the host names the output file: constructOutputDirectory and
\* constructFilename, then an extension; the file is later found under the
\* same root
EncodedPath(dirPath, filename) ==
    [relativePath |-> PathRelative(RootDir, PathJoin(<< dirPath, filename >>)),
     filename |-> filename]

EncodedAs(dir, name) ==
    /\ ~dir.threw /\ ~name.threw
    /\ codecPath' = EncodedPath(dir.value, name.value \o ExtStr)

Encode ==
    /\ codecPc = "encode"
    /\ EncodedAs(constructOutputDirectory(CodecConfig(codecIn), codecIn.date),
                 constructFilename(CodecConfig(codecIn), codecIn.date, TypeStr, HashStr, << >>))
    /\ codecPc' = "ready"
    /\ UNCHANGED << codecIn, codecOut >>
    /\ UNCHANGED << rangeVars, walkVars, nameVars, cfgVars, dirVars, feVars, sanVars >>

Decode ==
    /\ codecPc = "ready"
    /\ codecOut' = parseDateFromFilePath(codecPath.relativePath, codecPath.filename,
                                         codecIn.structure, codecIn.shouldParseTime)
    /\ codecPc' = "decoded"
    /\ UNCHANGED << codecIn, codecPath >>
    /\ UNCHANGED << rangeVars, walkVars, nameVars, cfgVars, dirVars, feVars, sanVars >>

CodecNext == Encode \/ Decode

\* ------------------------------------------------------------------------
\* The range-filter run: one call of isDateInRange or of calculateDateRange
\* ------------------------------------------------------------------------

\* the instants of the model lie within MaxSkew minutes of "now" and of the
\* start of the default window, and one day before that window
MaxSkew == 1

NowBase == DateUTC(2024, 0, 1, 0, 0)

RangeInstants ==
    { NowBase + k : k \in (0 - MaxSkew)..MaxSkew }
    \cup { subDays(NowBase, DefaultWindowDays) + k : k \in (0 - MaxSkew)..MaxSkew }
    \cup { subDays(NowBase, DefaultWindowDays + 1) }

\* a Date argument: a valid instant or an Invalid Date
DateValues == RangeInstants \cup {NaN}

\* an optional Date argument
OptionalDates == DateValues \cup {Undefined}

RangeCall(op, date, range, now, startDate, endDate) ==
    [op |-> op, date |-> date, range |-> range, now |-> now,
     startDate |-> startDate, endDate |-> endDate]

NoRangeResult == [inRange |-> FALSE, range |-> RangeResult(FALSE, "", Undefined, Undefined)]

RangeIdle == rangePc = "idle"
             /\ rangeIn = RangeCall("idle", 0, NoRange, 0, Undefined, Undefined)
             /\ rangeOut = NoRangeResult

RangeInit ==
    /\ rangePc = "call"
    /\ \/ \E date \in RangeInstants, start \in OptionalDates, end \in OptionalDates :
             rangeIn = RangeCall("isDateInRange", date, Range(start, end), 0, Undefined, Undefined)
       \/ \E date \in RangeInstants :
             rangeIn = RangeCall("isDateInRange", date, NoRange, 0, Undefined, Undefined)
       \/ \E now \in {NowBase, NowBase + MaxSkew}, start \in OptionalDates, end \in OptionalDates :
             rangeIn = RangeCall("calculateDateRange", 0, NoRange, now, start, end)
    /\ rangeOut = NoRangeResult

CallIsDateInRange ==
    /\ rangePc = "call"
    /\ rangeIn.op = "isDateInRange"
    /\ rangeOut' = [rangeOut EXCEPT !.inRange = isDateInRange(rangeIn.date, rangeIn.range)]
    /\ rangePc' = "returned"
    /\ UNCHANGED rangeIn
    /\ UNCHANGED << codecVars, walkVars, nameVars, cfgVars, dirVars, feVars, sanVars >>

CallCalculateDateRange ==
    /\ rangePc = "call"
    /\ rangeIn.op = "calculateDateRange"
    /\ rangeOut' = [rangeOut EXCEPT
                      !.range = calculateDateRange(rangeIn.now, rangeIn.startDate, rangeIn.endDate)]
    /\ rangePc' = "returned"
    /\ UNCHANGED rangeIn
    /\ UNCHANGED << codecVars, walkVars, nameVars, cfgVars, dirVars, feVars, sanVars >>

RangeNext == CallIsDateInRange \/ CallCalculateDateRange

\* ------------------------------------------------------------------------
\* The structured walk: process() over storage.forEachFileIn
\* ------------------------------------------------------------------------

\* the longest enumeration glob returns, and the most workers
MaxFiles == 3

MaxConcurrency == 2

InputDir == << "/", "d" >>

\* getFilePattern(features, extensions)
StarDotStar == << "*", "*", "/", "*", ".", "*" >>

getFilePattern(features, extensions) ==
    IF Includes(features, "extensions") /\ Len(extensions) > 0
    THEN << "*", "*", "/", "*", "." >> \o extensions[1]
    ELSE StarDotStar

EndsWith(str, suffix) ==
    Len(str) >= Len(suffix) /\ SubSeq(str, Len(str) - Len(suffix) + 1, Len(str)) = suffix

\* Array.prototype.pop's result
LastOf(parts) == parts[Len(parts)]

\* node:path extname of a whole path: that of its last component
PathExtname(filePath) == extname(LastOf(Split(filePath, {PathSep})))

\* what processStructuredFile does with a path before it awaits anything:
\* "invoke" the host callback with a date, "skip" the file, or log an "error"
\* (the catch of lines 337-344) and skip it
Decision(kind, date) == [kind |-> kind, date |-> date]

\* a variant that does not apply the range
DecideOnDateUnfiltered(parsedDate, range) ==
    CASE parsedDate.kind = "throw" -> Decision("error", 0)
      [] parsedDate.kind = "null"  -> Decision("skip", 0)
      [] OTHER -> Decision("invoke", parsedDate.t)

\* lines 321-336: the parsed date against the range
DecideOnDate(parsedDate, range) ==
    CASE parsedDate.kind = "throw" -> Decision("error", 0)
      [] parsedDate.kind = "null"  -> Decision("skip", 0)
      [] OTHER ->
           IF isDateInRange(parsedDate.t, range)
           THEN Decision("invoke", parsedDate.t)
           ELSE Decision("skip", 0)

\* lines 313-319: the filename popped off the relative path
DecideOnFilename(relativePath, filename, structure, shouldParseTime, range) ==
    IF Len(filename) = 0 THEN Decision("skip", 0)
    ELSE DecideOnDate(parseDateFromFilePath(relativePath, filename, structure, shouldParseTime),
                      range)

DecideOnRelativePath(relativePath, structure, shouldParseTime, range) ==
    DecideOnFilename(relativePath, LastOf(Split(relativePath, {PathSep})),
                     structure, shouldParseTime, range)

processStructuredFile(filePath, inputDirectory, structure, shouldParseTime, pattern, range) ==
    IF filePath = inputDirectory
       \/ (Len(PathExtname(filePath)) = 0 /\ EndsWith(pattern, << "*", ".", "*" >>))
    THEN Decision("skip", 0)
    ELSE DecideOnRelativePath(PathRelative(inputDirectory, filePath),
                              structure, shouldParseTime, range)

\* the files glob can find under the input directory, relative to it
File1 == << "2", "0", "2", "3", "-", "1", "2", "-", "1", "5", "-", "0", "8", "3", "0",
            "-", "a", ".", "m", "d" >>

File2 == << "2", "0", "2", "3", "/", "1", "2", "-", "2", "0", "-", "0", "9", "0", "0",
            "-", "b", ".", "m", "d" >>

File3 == << "2", "0", "2", "2", "-", "1", "-", "1", "-", "0", "0", "0", "0", ".", "m", "d" >>

File4 == << "n", "t", "e", "s", ".", "m", "d" >>

File5 == << "2", "0", "2", "3", "-", "1", "2", "-", "2", "5", "-", "1", "0", "0", "0",
            "-", "c", ".", "m", "d" >>

\* the order in which glob enumerates them
FileOrder == << File1, File2, File3, File4, File5 >>

RECURSIVE InFileOrder(_)
InFileOrder(present) ==
    IF present = {} THEN << >>
    ELSE LET first == CHOOSE i \in present : \A j \in present : i <= j
         IN  << FileOrder[first] >> \o InFileOrder(present \ {first})

\* what glob returns: the files present under the input directory, at most
\* MaxFiles of them, in enumeration order
GlobResults ==
    { InFileOrder(present) :
        present \in { p \in SUBSET (1..Len(FileOrder)) : Cardinality(p) <= MaxFiles } }

WalkStructures == {"none", "year", "month", "week"}

WalkInput(structure, options, start, end, lim, conc, files) ==
    [structure |-> structure, inputFilenameOptions |-> options, start |-> start,
     end |-> end, limit |-> lim, concurrency |-> conc, files |-> files, now |-> NowBase]

NoWorker == [pc |-> "new", file |-> << >>, call |-> 0]

WalkRest ==
    /\ dateRange = NoRange
    /\ limit = 0
    /\ concurrency = 0
    /\ fileQueue = << >>
    /\ filesProcessed = 0
    /\ workers = << >>
    /\ considered = << >>
    /\ hostCalls = << >>
    /\ errorsLogged = 0
    /\ fileCount = 0
    /\ walkResult = 0

WalkIdle == walkPc = "idle"
            /\ walkIn = WalkInput("none", << >>, Undefined, Undefined, Undefined, Undefined, << >>)
            /\ WalkRest

\* the start option of a walk: absent, inside the default window, after now
WalkStarts == {Undefined, DateUTC(2023, 11, 18, 0, 0), NowBase + MaxSkew}

\* process() has not been called yet
WalkInit ==
    /\ walkPc = "uncalled"
    /\ walkIn = WalkInput("none", << >>, Undefined, Undefined, Undefined, Undefined, << >>)
    /\ WalkRest

\* the host calls process() with its arguments, over a directory in which
\* glob will find some files
Call ==
    /\ walkPc = "uncalled"
    /\ walkPc' = "init"
    /\ \E structure \in WalkStructures, options \in {<< >>, << "time" >>},
          start \in WalkStarts,
          lim \in {Undefined} \cup 1..MaxFiles, conc \in {Undefined} \cup 1..MaxConcurrency,
          files \in GlobResults :
          walkIn' = WalkInput(structure, options, start, Undefined, lim, conc, files)
    /\ UNCHANGED << dateRange, limit, concurrency, fileQueue, filesProcessed, workers,
                    considered, hostCalls, errorsLogged, fileCount, walkResult >>
    /\ UNCHANGED << codecVars, rangeVars, nameVars, cfgVars, dirVars, feVars, sanVars >>

\* a variant that takes the whole enumeration whatever the limit
SliceAll(seq, n) == seq

\* Array.prototype.slice(0, n) for n >= 0
Slice(seq, n) == SubSeq(seq, 1, IF n < Len(seq) THEN n ELSE Len(seq))

\* a variant that starts one worker more
ConcurrencyPlusOne(option) ==
    (IF option = Undefined \/ option = 0 THEN 1 ELSE option) + 1

\* options.concurrency || 1
ConcurrencyOrOne(option) == IF option = Undefined \/ option = 0 THEN 1 ELSE option

\* options.limit || files.length
LimitOrLength(option, length) == IF option = Undefined \/ option = 0 THEN length ELSE option

\* a variant of shift that leaves the path in the queue
ShiftKeeping(queue) == queue

\* the queue after fileQueue.shift()
Shift(queue) == Tail(queue)

\* process() up to the point where forEachFileIn has its queue: the range is
\* calculated (an error rejects the call), glob returns the files
ProcessStart ==
    /\ walkPc = "init"
    /\ LET r == calculateDateRange(walkIn.now, walkIn.start, walkIn.end)
       IN  IF r.threw
           THEN /\ walkPc' = "rejected"
                /\ UNCHANGED << dateRange, limit, concurrency, fileQueue, workers >>
           ELSE /\ walkPc' = "spawning"
                /\ dateRange' = Range(r.start, r.end)
                /\ limit' = LimitOrLength(walkIn.limit, Len(walkIn.files))
                /\ concurrency' = ConcurrencyOrOne(walkIn.concurrency)
                /\ fileQueue' = Slice(walkIn.files,
                                      LimitOrLength(walkIn.limit, Len(walkIn.files)))
                /\ workers' = [w \in 1..ConcurrencyOrOne(walkIn.concurrency) |-> NoWorker]
    /\ UNCHANGED << walkIn, filesProcessed, considered, hostCalls, errorsLogged,
                    fileCount, walkResult >>
    /\ UNCHANGED << codecVars, rangeVars, nameVars, cfgVars, dirVars, feVars, sanVars >>

\* one pass of a worker's loop from its test to its await (lines 131-136 of
\* storage.ts with the callback process() passes, which runs
\* processStructuredFile up to its await), given the value of filesProcessed
\* and the errors logged since the worker resumed
CallbackOn(w, filePath, decision, logged) ==
    /\ fileQueue' = Shift(fileQueue)
    /\ considered' = Append(considered, filePath)
    /\ errorsLogged' = errorsLogged + logged + (IF decision.kind = "error" THEN 1 ELSE 0)
    /\ IF decision.kind = "invoke"
       THEN /\ hostCalls' = Append(hostCalls,
                   [file |-> filePath, date |-> decision.date, state |-> "inflight"])
            /\ workers' = [workers EXCEPT ![w] =
                   [pc |-> "awaitHost", file |-> filePath, call |-> Len(hostCalls) + 1]]
       ELSE /\ hostCalls' = hostCalls
            /\ workers' = [workers EXCEPT ![w] =
                   [pc |-> "awaitSkipped", file |-> filePath, call |-> 0]]

CallbackOnPath(w, filePath, logged) ==
    CallbackOn(w, filePath,
               processStructuredFile(filePath, InputDir, walkIn.structure,
                                     Includes(walkIn.inputFilenameOptions, "time"),
                                     getFilePattern(<< >>, << >>), dateRange),
               logged)

WorkerIteration(w, processed, logged) ==
    IF Len(fileQueue) > 0 /\ processed < limit
    THEN CallbackOnPath(w, PathJoin(<< InputDir, Head(fileQueue) >>), logged)
    ELSE /\ workers' = [workers EXCEPT ![w] = [pc |-> "done", file |-> << >>, call |-> 0]]
         /\ errorsLogged' = errorsLogged + logged
         /\ UNCHANGED << fileQueue, considered, hostCalls >>

\* Array.from({length: concurrency}, () => worker()): the workers start one
\* after the other, each running to its first await
SpawnWorker ==
    /\ walkPc = "spawning"
    /\ \E w \in 1..concurrency :
          /\ workers[w].pc = "new"
          /\ \A v \in 1..(w - 1) : workers[v].pc # "new"
          /\ WorkerIteration(w, filesProcessed, 0)
          /\ walkPc' = IF w = concurrency THEN "running" ELSE "spawning"
    /\ UNCHANGED << walkIn, dateRange, limit, concurrency, filesProcessed, fileCount, walkResult >>
    /\ UNCHANGED << codecVars, rangeVars, nameVars, cfgVars, dirVars, feVars, sanVars >>

\* the host's callback returns
HostReturns ==
    /\ walkPc = "running"
    /\ \E w \in 1..concurrency :
          /\ workers[w].pc = "awaitHost"
          /\ hostCalls[workers[w].call].state = "inflight"
          /\ hostCalls' = [hostCalls EXCEPT ![workers[w].call].state = "returned"]
    /\ UNCHANGED << walkPc, walkIn, dateRange, limit, concurrency, fileQueue, filesProcessed,
                    workers, considered, errorsLogged, fileCount, walkResult >>
    /\ UNCHANGED << codecVars, rangeVars, nameVars, cfgVars, dirVars, feVars, sanVars >>

\* the host's callback throws
HostThrows ==
    /\ walkPc = "running"
    /\ \E w \in 1..concurrency :
          /\ workers[w].pc = "awaitHost"
          /\ hostCalls[workers[w].call].state = "inflight"
          /\ hostCalls' = [hostCalls EXCEPT ![workers[w].call].state = "threw"]
    /\ UNCHANGED << walkPc, walkIn, dateRange, limit, concurrency, fileQueue, filesProcessed,
                    workers, considered, errorsLogged, fileCount, walkResult >>
    /\ UNCHANGED << codecVars, rangeVars, nameVars, cfgVars, dirVars, feVars, sanVars >>

\* a variant that counts every invocation
ProcessedCountsInvocations(w) ==
    workers[w].pc = "awaitHost"

\* whether processStructuredFile returns true for the worker's file: only
\* after `await callback(filePath, parsedDate)` completed without throwing
Processed(w) ==
    workers[w].pc = "awaitHost" /\ hostCalls[workers[w].call].state = "returned"

\* the catch of processStructuredFile (lines 337-344) ran for the worker's file
HostThrew(w) ==
    workers[w].pc = "awaitHost" /\ hostCalls[workers[w].call].state = "threw"

\* a variant in which what the host throws is not caught, so that the
\* worker's await never completes normally
CallbackSettledUnlessThrown(w) ==
    \/ workers[w].pc = "awaitSkipped"
    \/ workers[w].pc = "awaitHost" /\ hostCalls[workers[w].call].state = "returned"

\* the promise of the callback process() passes is fulfilled: its
\* processStructuredFile returned without awaiting the host, or the host's
\* callback returned, or it threw into the catch of lines 337-344
CallbackSettled(w) ==
    \/ workers[w].pc = "awaitSkipped"
    \/ workers[w].pc = "awaitHost" /\ hostCalls[workers[w].call].state # "inflight"

\* a variant in which a worker leaves its loop after its first callback
LimitReachedAtOnce(processed) == processed >= 1

\* if (filesProcessed >= limit) break
LimitReached(processed) == processed >= limit

\* a worker resumes after its await: processStructuredFile returns (its catch
\* logs what the host threw), process() counts the file, the worker counts
\* the callback and goes round its loop to the next await
WorkerContinue ==
    /\ walkPc = "running"
    /\ \E w \in 1..concurrency :
          /\ CallbackSettled(w)
          /\ fileCount' = fileCount + (IF Processed(w) THEN 1 ELSE 0)
          /\ filesProcessed' = filesProcessed + 1
          /\ IF LimitReached(filesProcessed + 1)
             THEN /\ workers' = [workers EXCEPT ![w] =
                                    [pc |-> "done", file |-> << >>, call |-> 0]]
                  /\ errorsLogged' = errorsLogged + (IF HostThrew(w) THEN 1 ELSE 0)
                  /\ UNCHANGED << fileQueue, considered, hostCalls >>
             ELSE WorkerIteration(w, filesProcessed + 1, IF HostThrew(w) THEN 1 ELSE 0)
    /\ UNCHANGED << walkPc, walkIn, dateRange, limit, concurrency, walkResult >>
    /\ UNCHANGED << codecVars, rangeVars, nameVars, cfgVars, dirVars, feVars, sanVars >>

\* Promise.all(workers) is fulfilled, forEachFileIn returns and process()
\* resolves with fileCount
Settle ==
    /\ walkPc = "running"
    /\ \A w \in 1..concurrency : workers[w].pc = "done"
    /\ walkPc' = "resolved"
    /\ walkResult' = fileCount
    /\ UNCHANGED << walkIn, dateRange, limit, concurrency, fileQueue, filesProcessed,
                    workers, considered, hostCalls, errorsLogged, fileCount >>
    /\ UNCHANGED << codecVars, rangeVars, nameVars, cfgVars, dirVars, feVars, sanVars >>

\* the steps of a call of process() that is under way
WalkRun == ProcessStart \/ SpawnWorker \/ HostReturns \/ HostThrows \/ WorkerContinue \/ Settle

WalkNext == Call \/ WalkRun

\* ------------------------------------------------------------------------
\* The filename run: one call of constructFilename
\* ------------------------------------------------------------------------

\* the longest configured option list of the model
MaxOptions == 3

FilenameOptions == {"date", "time", "subject"}

\* the option lists a configuration can hold: in any order, with repetitions
OptionLists == UNION { [1..n -> FilenameOptions] : n \in 0..MaxOptions }

NameStructures == Structures \cup {Unset}

NameTzOffsets == {-300, 330}

\* instants whose local date differs between the two timezones
NameDates == { DateUTC(2024, 5, 15, 10, 30), DateUTC(2023, 11, 31, 23, 59) }

\* subjects: empty, a word, a phrase with characters that are replaced, and
\* strings without a letter or digit
Subjects ==
    { << >>, << "a" >>, << "R", "e", ":", " ", "x" >>, << "_", "_", "_" >>,
      << "!", "!", "!" >>, << "-", "-", "-" >>, << ".", ".", "." >>,
      << "_", "-", "_" >>, << "/", "-", "!" >> }

ConfigWithOptions(structure, tz, list) ==
    [outputDirectory |-> RootDir, outputStructure |-> structure, timezone |-> tz,
     outputFilenameOptions |-> list]

ConfigWithoutOptions(structure, tz) ==
    [outputDirectory |-> RootDir, outputStructure |-> structure, timezone |-> tz]

NameInput(config, date, options) == [config |-> config, date |-> date, options |-> options]

NoName == Success(<< >>)

NameIdle == namePc = "idle" /\ nameIn = NameInput(<< >>, 0, << >>) /\ nameOut = NoName

\* a configuration with or without an option list, and a call with or
\* without a subject
NameInit ==
    /\ namePc = "call"
    /\ \E structure \in NameStructures, tz \in NameTzOffsets, date \in NameDates :
          \E config \in { ConfigWithOptions(structure, tz, list) : list \in OptionLists }
                         \cup { ConfigWithoutOptions(structure, tz) } :
             \/ nameIn = NameInput(config, date, << >>)
             \/ \E subject \in Subjects :
                   nameIn = NameInput(config, date, [subject |-> subject])
    /\ nameOut = NoName

\* constructFilename(date, type, hash, options) returns or throws
ConstructFilename ==
    /\ namePc = "call"
    /\ nameOut' = constructFilename(nameIn.config, nameIn.date, TypeStr, HashStr, nameIn.options)
    /\ namePc' = IF nameOut'.threw THEN "threw" ELSE "returned"
    /\ UNCHANGED nameIn
    /\ UNCHANGED << codecVars, rangeVars, walkVars, cfgVars, dirVars, feVars, sanVars >>

NameNext == ConstructFilename

\* ------------------------------------------------------------------------
\* The configuration run: validate(config, options), then the output
\* constructor under the configuration that passed (src/validate.ts, here
\* src/unnamed/part_009)
\* ------------------------------------------------------------------------

\* the entries an option list can hold, as the characters of each
OptionChars(opt) ==
    CASE opt = "date"      -> << "d", "a", "t", "e" >>
      [] opt = "time"      -> << "t", "i", "m", "e" >>
      [] opt = "subject"   -> << "s", "u", "b", "j", "e", "c", "t" >>
      [] opt = "date,time" -> << "d", "a", "t", "e", ",", "t", "i", "m", "e" >>
      [] opt = "date time" -> << "d", "a", "t", "e", " ", "t", "i", "m", "e" >>
      [] opt = "title"     -> << "t", "i", "t", "l", "e" >>

\* String.prototype.includes for one character
HasChar(str, ch) == \E i \in 1..Len(str) : str[i] = ch

Resolved == [settled |-> "resolved", flag |-> "", message |-> ""]

\* throw new ArgumentError(flag, message); a plain Error has no flag
Rejected(flag, message) == [settled |-> "rejected", flag |-> flag, message |-> message]

Awaiting(what) == [settled |-> what, flag |-> "", message |-> ""]

\* validateOutputStructure and validateInputStructure (lines 36-41, 69-74)
validateStructure(structure, flag) ==
    IF structure # Unset /\ structure \notin Structures
    THEN Rejected(flag, "Invalid structure") ELSE Resolved

\* validateOutputFilenameOptions and validateInputFilenameOptions (lines
\* 43-67, 76-100) for a list that is set and not empty
validateListedOptions(list, structure, flag) ==
    IF HasChar(OptionChars(list[1]), ",")
    THEN Rejected(flag, "Filename options should be space-separated, not comma-separated")
    ELSE IF Len(list) = 1 /\ Len(Split(OptionChars(list[1]), {" "})) > 1
    THEN Rejected(flag, "Filename options should not be quoted")
    ELSE IF \E i \in 1..Len(list) : list[i] \notin FilenameOptions
    THEN Rejected(flag, "Invalid filename options")
    ELSE IF Includes(list, "date") /\ structure # Unset /\ structure = "day"
    THEN Rejected(flag, "Cannot use date in filename when structure is day")
    ELSE Resolved

\* the option list of a configuration field, << >> when the field is not set
ListOf(config, field) == IF field \in DOMAIN config THEN config[field] ELSE << >>

validateFilenameOptions(config, field, structure, flag) ==
    IF Len(ListOf(config, field)) > 0
    THEN validateListedOptions(ListOf(config, field), structure, flag)
    ELSE Resolved

\* lines 147-152 of validate
ValidateStructuredInput(in) ==
    IF "structured-input" \notin in.features THEN Resolved
    ELSE IF validateStructure(in.config.inputStructure, "--input-structure").settled = "rejected"
    THEN validateStructure(in.config.inputStructure, "--input-structure")
    ELSE validateFilenameOptions(in.config, "inputFilenameOptions", in.config.inputStructure,
                                 "--input-filename-options")

\* lines 143-145 of validate, with validateExtensions (lines 110-118)
ValidateExtensions(in) ==
    IF "extensions" \in in.features /\ ~in.extensionsAllowed
    THEN Rejected("--extensions", "Invalid extensions")
    ELSE ValidateStructuredInput(in)

\* lines 137-141 of validate
ValidateStructuredOutput(in) ==
    IF "structured-output" \notin in.features THEN ValidateExtensions(in)
    ELSE IF validateStructure(in.config.outputStructure, "--output-structure").settled = "rejected"
    THEN validateStructure(in.config.outputStructure, "--output-structure")
    ELSE IF validateFilenameOptions(in.config, "outputFilenameOptions", in.config.outputStructure,
                                    "--output-filename-options").settled = "rejected"
    THEN validateFilenameOptions(in.config, "outputFilenameOptions", in.config.outputStructure,
                                 "--output-filename-options")
    ELSE ValidateExtensions(in)

\* lines 127-135 of validate: the limit, then up to the await of
\* validateOutputDirectory
ValidateLimit(in) ==
    IF "input" \in in.features /\ in.config.limit \notin {Undefined, 0} /\ in.config.limit < 1
    THEN Rejected("--limit", "Limit must be greater than 0")
    ELSE IF "output" \in in.features /\ in.config.outputDirectory # << >>
    THEN Awaiting("awaitOutputDirectory")
    ELSE ValidateStructuredOutput(in)

\* lines 120-125 of validate: validateTimezone (lines 102-108), then up to
\* the await of validateInputDirectory
ValidateTimezone(in) ==
    IF ~in.timezoneValid THEN Rejected("--timezone", "Invalid timezone")
    ELSE IF "input" \in in.features /\ in.config.inputDirectory # << >>
    THEN Awaiting("awaitInputDirectory")
    ELSE ValidateLimit(in)

\* !storage.isDirectoryReadable(inputDirectory) (line 24): the operand is
\* the promise isDirectoryReadable returns, an object, whatever it will
\* resolve to
NotReadablePromise(readable) == FALSE

\* validateInputDirectory (lines 21-27)
validateInputDirectory(readable) ==
    IF NotReadablePromise(readable)
    THEN Rejected("", "Input directory does not exist") ELSE Resolved

\* validateOutputDirectory (lines 29-34), given what the awaited
\* isDirectoryWritable resolved to
validateOutputDirectory(writable) ==
    IF ~writable THEN Rejected("", "Output directory does not exist") ELSE Resolved

Features == {"input", "output", "structured-output", "extensions", "structured-input"}

CfgStructures == {Unset, "none", "year", "month", "day", "week"}

CfgOutputLists ==
    { << "date" >>, << "time", "date" >>, << "subject" >>, << "date,time" >>,
      << "date time" >>, << "title" >> }

CfgInputLists == { << "date" >>, << "title" >> }

CfgBase(outputStructure, inputStructure, lim) ==
    [timezone |-> 0, inputDirectory |-> InputDir, outputDirectory |-> RootDir,
     limit |-> lim, outputStructure |-> outputStructure, inputStructure |-> inputStructure]

\* the configurations of the model: each option list set or not
CfgConfigs ==
    UNION { { CfgBase(os, is, lim),
              CfgBase(os, is, lim) @@ [inputFilenameOptions |-> << "date" >>] }
            \cup { CfgBase(os, is, lim) @@ [outputFilenameOptions |-> out] :
                       out \in CfgOutputLists }
            \cup { CfgBase(os, is, lim) @@ [outputFilenameOptions |-> << "time" >>,
                                             inputFilenameOptions |-> inp] :
                       inp \in CfgInputLists } :
            os \in CfgStructures, is \in {"none", "day"}, lim \in {Undefined, -1} }

CfgDate == DateUTC(2024, 5, 15, 10, 30)

CfgInput(config, features, timezoneValid, readable, writable, extensionsAllowed) ==
    [config |-> config, features |-> features, timezoneValid |-> timezoneValid,
     inputReadable |-> readable, outputWritable |-> writable,
     extensionsAllowed |-> extensionsAllowed, date |-> CfgDate]

NoOutput == [dir |-> Success(<< >>), name |-> Success(<< >>)]

CfgIdle ==
    /\ cfgPc = "idle"
    /\ cfgIn = CfgInput(<< >>, {}, TRUE, TRUE, TRUE, TRUE)
    /\ cfgErr = Resolved
    /\ cfgOut = NoOutput

CfgInit ==
    /\ cfgPc = "call"
    /\ \E config \in CfgConfigs, features \in SUBSET Features,
          timezoneValid, readable, writable, extensionsAllowed \in BOOLEAN :
          cfgIn = CfgInput(config, features, timezoneValid, readable, writable,
                           extensionsAllowed)
    /\ cfgErr = Resolved
    /\ cfgOut = NoOutput

\* validate() goes on to its next await or settles
CfgSettle(outcome) ==
    /\ cfgPc' = outcome.settled
    /\ cfgErr' = outcome
    /\ UNCHANGED << cfgIn, cfgOut >>
    /\ UNCHANGED << codecVars, rangeVars, walkVars, nameVars, dirVars, feVars, sanVars >>

\* validate(config, options) is called and runs to its first await
ValidateCall ==
    /\ cfgPc = "call"
    /\ CfgSettle(ValidateTimezone(cfgIn))

\* the await of validateInputDirectory completes
InputDirectoryValidated ==
    /\ cfgPc = "awaitInputDirectory"
    /\ CfgSettle(IF validateInputDirectory(cfgIn.inputReadable).settled = "rejected"
                 THEN validateInputDirectory(cfgIn.inputReadable)
                 ELSE ValidateLimit(cfgIn))

\* the await of validateOutputDirectory completes
OutputDirectoryValidated ==
    /\ cfgPc = "awaitOutputDirectory"
    /\ CfgSettle(IF validateOutputDirectory(cfgIn.outputWritable).settled = "rejected"
                 THEN validateOutputDirectory(cfgIn.outputWritable)
                 ELSE ValidateStructuredOutput(cfgIn))

\* the host names an output file under the configuration that passed
ConstructOutput ==
    /\ cfgPc = "resolved"
    /\ cfgPc' = "constructed"
    /\ cfgOut' = [dir  |-> constructOutputDirectory(cfgIn.config, cfgIn.date),
                  name |-> constructFilename(cfgIn.config, cfgIn.date, TypeStr, HashStr,
                                             [subject |-> << "a" >>])]
    /\ UNCHANGED << cfgIn, cfgErr >>
    /\ UNCHANGED << codecVars, rangeVars, walkVars, nameVars, dirVars, feVars, sanVars >>

CfgNext == ValidateCall \/ InputDirectoryValidated \/ OutputDirectoryValidated \/ ConstructOutput

\* ------------------------------------------------------------------------
\* The directory run: one call of constructOutputDirectory
\* ------------------------------------------------------------------------

DirIdle == dirPc = "idle" /\ dirIn = << >> /\ dirOut = Success(<< >>) /\ mkdirs = << >>

DirRoots == {RootDir, << >>}

DirStructures == Structures \cup {Unset}

DirDates == NameDates \cup { DateUTC(2024, 1, 29, 0, 0), DateUTC(2024, 9, 1, 18, 30) }

\* a configured root and structure, or one of them missing
DirInit ==
    /\ dirPc = "call"
    /\ \E root \in DirRoots, structure \in DirStructures, tz \in NameTzOffsets,
          creationTime \in DirDates :
          dirIn = [config |-> [outputDirectory |-> root, outputStructure |-> structure,
                               timezone |-> tz],
                   creationTime |-> creationTime]
    /\ dirOut = Success(<< >>)
    /\ mkdirs = << >>

\* lines 84-119 with the path computed: storage.createDirectory(outputPath)
\* is called, which issues the mkdir, and the path is returned without
\* waiting for it
DirReturns(result) ==
    /\ dirOut' = result
    /\ IF result.threw
       THEN dirPc' = "threw" /\ UNCHANGED mkdirs
       ELSE /\ dirPc' = "returned"
            /\ mkdirs' = Append(mkdirs, [path |-> result.value, state |-> "pending"])

\* constructOutputDirectory(creationTime) throws or returns
ConstructOutputDirectory ==
    /\ dirPc = "call"
    /\ DirReturns(constructOutputDirectory(dirIn.config, dirIn.creationTime))
    /\ UNCHANGED dirIn
    /\ UNCHANGED << codecVars, rangeVars, walkVars, nameVars, cfgVars, feVars, sanVars >>

\* fs.promises.mkdir(path, {recursive: true}) completes
MkdirSucceeds ==
    /\ \E k \in 1..Len(mkdirs) :
          /\ mkdirs[k].state = "pending"
          /\ mkdirs' = [mkdirs EXCEPT ![k].state = "created"]
    /\ UNCHANGED << dirPc, dirIn, dirOut >>
    /\ UNCHANGED << codecVars, rangeVars, walkVars, nameVars, cfgVars, feVars, sanVars >>

\* fs.promises.mkdir fails: createDirectory (storage.ts lines 97-103) throws
\* into a promise that nothing awaits
MkdirFails ==
    /\ \E k \in 1..Len(mkdirs) :
          /\ mkdirs[k].state = "pending"
          /\ mkdirs' = [mkdirs EXCEPT ![k].state = "failed"]
    /\ UNCHANGED << dirPc, dirIn, dirOut >>
    /\ UNCHANGED << codecVars, rangeVars, walkVars, nameVars, cfgVars, feVars, sanVars >>

DirNext == ConstructOutputDirectory \/ MkdirSucceeds \/ MkdirFails

\* ------------------------------------------------------------------------
\* forEachFileIn with a callback of the host's
\* ------------------------------------------------------------------------

FeIdle ==
    /\ fePc = "idle"
    /\ feIn = << >>
    /\ feQueue = << >>
    /\ feProcessed = 0
    /\ feWorkers = << >>
    /\ feCalls = << >>

\* forEachFileIn has not been called yet
FeInit ==
    /\ fePc = "uncalled"
    /\ feIn = << >>
    /\ feQueue = << >>
    /\ feProcessed = 0
    /\ feWorkers = << >>
    /\ feCalls = << >>

\* const limit = options.limit || files.length
FeLimit == LimitOrLength(feIn.limit, Len(feIn.files))

\* forEachFileIn(directory, callback, options) is called and awaits glob,
\* which will find some files
ForEachFileIn ==
    /\ fePc = "uncalled"
    /\ fePc' = "globbing"
    /\ \E lim \in {Undefined} \cup 1..MaxFiles, conc \in {Undefined} \cup 1..MaxConcurrency,
          files \in GlobResults :
          feIn' = [files |-> files, limit |-> lim, concurrency |-> conc]
    /\ UNCHANGED << feQueue, feProcessed, feWorkers, feCalls >>
    /\ UNCHANGED << codecVars, rangeVars, walkVars, nameVars, cfgVars, dirVars, sanVars >>

\* glob fails: the catch rethrows and the promise of forEachFileIn rejects
GlobRejects ==
    /\ fePc = "globbing"
    /\ fePc' = "rejected"
    /\ UNCHANGED << feIn, feQueue, feProcessed, feWorkers, feCalls >>
    /\ UNCHANGED << codecVars, rangeVars, walkVars, nameVars, cfgVars, dirVars, sanVars >>

\* the number of workers that find a path in the queue when they start
FirstTaken(queue) ==
    IF ConcurrencyOrOne(feIn.concurrency) < Len(queue)
    THEN ConcurrencyOrOne(feIn.concurrency) ELSE Len(queue)

\* glob returns its files: the queue is sliced and
\* Array.from({length: concurrency}, () => worker()) starts the workers one
\* after the other, each running to its first await or, with the queue empty,
\* to its end; forEachFileIn then awaits Promise.all
GlobResolves ==
    /\ fePc = "globbing"
    /\ fePc' = "running"
    /\ LET queue == Slice(feIn.files, FeLimit)
           taken == FirstTaken(queue)
       IN  /\ feQueue' = SubSeq(queue, taken + 1, Len(queue))
           /\ feCalls' = [k \in 1..taken |->
                             [file |-> PathJoin(<< InputDir, queue[k] >>), state |-> "inflight"]]
           /\ feWorkers' = [w \in 1..ConcurrencyOrOne(feIn.concurrency) |->
                               IF w <= taken THEN [pc |-> "await", call |-> w]
                               ELSE [pc |-> "done", call |-> 0]]
    /\ UNCHANGED << feIn, feProcessed >>
    /\ UNCHANGED << codecVars, rangeVars, walkVars, nameVars, cfgVars, dirVars, sanVars >>

\* the promise of a callback invocation is fulfilled
CallbackFulfils ==
    /\ \E k \in 1..Len(feCalls) :
          /\ feCalls[k].state = "inflight"
          /\ feCalls' = [feCalls EXCEPT ![k].state = "fulfilled"]
    /\ UNCHANGED << fePc, feIn, feQueue, feProcessed, feWorkers >>
    /\ UNCHANGED << codecVars, rangeVars, walkVars, nameVars, cfgVars, dirVars, sanVars >>

\* the promise of a callback invocation is rejected
CallbackRejects ==
    /\ \E k \in 1..Len(feCalls) :
          /\ feCalls[k].state = "inflight"
          /\ feCalls' = [feCalls EXCEPT ![k].state = "rejected"]
    /\ UNCHANGED << fePc, feIn, feQueue, feProcessed, feWorkers >>
    /\ UNCHANGED << codecVars, rangeVars, walkVars, nameVars, cfgVars, dirVars, sanVars >>

\* a worker goes on after `await callback(...)` was fulfilled: it counts the
\* file, leaves at the limit, and otherwise tests its loop and takes the next
\* path to its next await (lines 131-143)
WorkerAfterAwait(w) ==
    /\ feProcessed' = feProcessed + 1
    /\ IF feProcessed + 1 >= FeLimit \/ Len(feQueue) = 0
       THEN /\ feWorkers' = [feWorkers EXCEPT ![w] = [pc |-> "done", call |-> 0]]
            /\ UNCHANGED << feQueue, feCalls >>
       ELSE /\ feQueue' = Shift(feQueue)
            /\ feCalls' = Append(feCalls,
                   [file |-> PathJoin(<< InputDir, Head(feQueue) >>), state |-> "inflight"])
            /\ feWorkers' = [feWorkers EXCEPT ![w] =
                   [pc |-> "await", call |-> Len(feCalls) + 1]]

\* a worker resumes after its await, whether or not the promise of
\* forEachFileIn is still pending: after a fulfilled callback it goes on, a
\* rejected callback throws out of the worker, whose promise rejects
FeWorkerResumes ==
    /\ \E w \in 1..Len(feWorkers) :
          /\ feWorkers[w].pc = "await"
          /\ feCalls[feWorkers[w].call].state # "inflight"
          /\ IF feCalls[feWorkers[w].call].state = "fulfilled"
             THEN WorkerAfterAwait(w)
             ELSE /\ feWorkers' = [feWorkers EXCEPT ![w] = [pc |-> "rejected", call |-> 0]]
                  /\ UNCHANGED << feQueue, feProcessed, feCalls >>
    /\ UNCHANGED << fePc, feIn >>
    /\ UNCHANGED << codecVars, rangeVars, walkVars, nameVars, cfgVars, dirVars, sanVars >>

\* `await Promise.all(workers)` completes: it is fulfilled when every worker
\* has ended and rejected as soon as one worker has rejected, and the catch
\* rethrows
PromiseAllSettles ==
    /\ fePc = "running"
    /\ IF \E w \in 1..Len(feWorkers) : feWorkers[w].pc = "rejected"
       THEN fePc' = "rejected"
       ELSE /\ \A w \in 1..Len(feWorkers) : feWorkers[w].pc = "done"
            /\ fePc' = "fulfilled"
    /\ UNCHANGED << feIn, feQueue, feProcessed, feWorkers, feCalls >>
    /\ UNCHANGED << codecVars, rangeVars, walkVars, nameVars, cfgVars, dirVars, sanVars >>

FeNext ==
    \/ ForEachFileIn \/ GlobRejects \/ GlobResolves
    \/ CallbackFulfils \/ CallbackRejects \/ FeWorkerResumes \/ PromiseAllSettles

\* ------------------------------------------------------------------------
\* The sanitizer run
\* ------------------------------------------------------------------------

SanIdle == sanPc = "idle" /\ sanIn = << >> /\ sanOut = << >>

\* the longest string handed to the sanitizer
MaxSubjectLen == 4

\* a letter, a digit, the three other characters that are kept, and
\* characters that are replaced
SubjectChars == {"a", "7", "_", "-", ".", "!", " "}

SubjectStrings == UNION { [1..n -> SubjectChars] : n \in 0..MaxSubjectLen }

SanInit ==
    /\ sanPc = "ready"
    /\ sanIn \in SubjectStrings
    /\ sanOut = << >>

\* sanitizeFilenameString(options.subject)
Sanitize ==
    /\ sanPc = "ready"
    /\ sanPc' = "sanitized"
    /\ sanOut' = << sanitizeFilenameString(sanIn) >>
    /\ UNCHANGED sanIn
    /\ UNCHANGED << codecVars, rangeVars, walkVars, nameVars, cfgVars, dirVars, feVars >>

\* sanitizeFilenameString on its own result, as when a filename's subject is
\* used as the subject of the next
SanitizeAgain ==
    /\ sanPc = "sanitized"
    /\ sanPc' = "resanitized"
    /\ sanOut' = Append(sanOut, sanitizeFilenameString(sanOut[1]))
    /\ UNCHANGED sanIn
    /\ UNCHANGED << codecVars, rangeVars, walkVars, nameVars, cfgVars, dirVars, feVars >>

SanNext == Sanitize \/ SanitizeAgain

\* ------------------------------------------------------------------------
\* Specifications
\* ------------------------------------------------------------------------

\* each run starts with the other two at rest
\* the runs of the configuration, the directory, forEachFileIn and the
\* sanitizer at rest
OutputIdle == CfgIdle /\ DirIdle /\ FeIdle /\ SanIdle

\* the runs of the codec, the range filter, the walk and the filename at rest
InputIdle == CodecIdle /\ RangeIdle /\ WalkIdle /\ NameIdle

InitCodec == CodecInit /\ RangeIdle /\ WalkIdle /\ NameIdle /\ OutputIdle

InitRange == RangeInit /\ CodecIdle /\ WalkIdle /\ NameIdle /\ OutputIdle

InitWalk == WalkInit /\ CodecIdle /\ RangeIdle /\ NameIdle /\ OutputIdle

InitName == NameInit /\ CodecIdle /\ RangeIdle /\ WalkIdle /\ OutputIdle

InitConfig == CfgInit /\ InputIdle /\ DirIdle /\ FeIdle /\ SanIdle

InitDir == DirInit /\ InputIdle /\ CfgIdle /\ FeIdle /\ SanIdle

InitForEach == FeInit /\ InputIdle /\ CfgIdle /\ DirIdle /\ SanIdle

InitSanitize == SanInit /\ InputIdle /\ CfgIdle /\ DirIdle /\ FeIdle

SpecCodec == InitCodec /\ [][CodecNext]_vars

SpecRange == InitRange /\ [][RangeNext]_vars

SpecWalk == InitWalk /\ [][WalkNext]_vars

SpecName == InitName /\ [][NameNext]_vars

SpecConfig == InitConfig /\ [][CfgNext]_vars

SpecDir == InitDir /\ [][DirNext]_vars

SpecForEach == InitForEach /\ [][FeNext]_vars

SpecSanitize == InitSanitize /\ [][SanNext]_vars

\* the steps the event loop takes by itself: the body of process() up to its
\* await, and the continuations of settled awaits
LoopStep == ProcessStart \/ SpawnWorker \/ WorkerContinue \/ Settle

\* some step of the event loop is ready to run: the guards of ProcessStart,
\* SpawnWorker, WorkerContinue and Settle
LoopReady ==
    \/ walkPc \in {"init", "spawning"}
    \/ /\ walkPc = "running"
       /\ \/ \E w \in 1..concurrency : CallbackSettled(w)
          \/ \A w \in 1..concurrency : workers[w].pc = "done"

\* the walk on an event loop that runs every continuation that is ready (weak
\* fairness of LoopStep, written with its guard LoopReady), with a host whose
\* callback settles (returns or throws) every time it is invoked
SpecWalkLive ==
    /\ InitWalk
    /\ [][WalkNext]_vars
    /\ WF_vars(HostReturns \/ HostThrows)
    /\ ([]<>~LoopReady) \/ ([]<><<LoopStep>>_vars)

\* ------------------------------------------------------------------------
\* Properties of the codec
\* ------------------------------------------------------------------------

RequiredDirs(structure) ==
    CASE structure = "none" -> 0 [] structure = "year" -> 1
      [] structure = "month" -> 2 [] structure = "day" -> 3

\* the directory components of the relative path and the tokens of the
\* filename stem, as the grammar of section 4.1 reads them
GrammarDirs == LET parts == Split(codecPath.relativePath, {PathSep})
               IN  SubSeq(parts, 1, Len(parts) - 1)

GrammarStemTokens ==
    Split(basename(codecPath.filename, extname(codecPath.filename)), {"-", "_"})

GrammarDateTokenCount == 3 - RequiredDirs(codecIn.structure)

GrammarSufficient ==
    /\ Len(GrammarDirs) >= RequiredDirs(codecIn.structure)
    /\ Len(GrammarStemTokens) >=
          GrammarDateTokenCount + (IF codecIn.shouldParseTime THEN 1 ELSE 0)

\* year, month and day tokens, defined when GrammarSufficient
GrammarDateTokens ==
    SubSeq(GrammarDirs, 1, RequiredDirs(codecIn.structure))
    \o SubSeq(GrammarStemTokens, 1, GrammarDateTokenCount)

GrammarTimeToken == GrammarStemTokens[GrammarDateTokenCount + 1]

IsDecimalInteger(tok) == Len(tok) > 0 /\ \A i \in 1..Len(tok) : IsDigit(tok[i])

\* the instant with the calendar day of t in the timezone and the time 00:00
StartOfDay(t, offset) == t - ((t + offset) % MinutesPerDay)

\* C1: a date encoded into directory components and filename fragments and
\* decoded under the same structure comes back as the same date (with the
\* time 00:00 when the time is not parsed), in every configured timezone.
C1_RoundTrip ==
    (codecPc = "decoded" /\ codecIn.mode = "date") =>
        codecOut = SomeDate(IF codecIn.shouldParseTime THEN codecIn.date
                            ELSE StartOfDay(codecIn.date, codecIn.timezone))

\* the same law restricted to the timezone UTC
RoundTripInUTC ==
    (codecPc = "decoded" /\ codecIn.mode = "date" /\ codecIn.timezone = 0) =>
        codecOut = SomeDate(IF codecIn.shouldParseTime THEN codecIn.date
                            ELSE StartOfDay(codecIn.date, 0))

\* too few tokens for the structure, or a year, month or day token that is
\* not a decimal integer, or a month outside 1..12, or a day outside 1..31
C2_BadTokens ==
    ~GrammarSufficient
    \/ \E i \in 1..3 : ~IsDecimalInteger(GrammarDateTokens[i])
    \/ parseInt(GrammarDateTokens[2]) \notin 1..12
    \/ parseInt(GrammarDateTokens[3]) \notin 1..31

\* C2: decoding never throws, and returns null whenever a year, month or day
\* token is not a decimal integer, the month is outside 1..12, the day is
\* outside 1..31, or there are fewer tokens than the structure requires.
C2_MalformedIsNull ==
    codecPc = "decoded" =>
        /\ codecOut.kind # "throw"
        /\ C2_BadTokens => codecOut.kind = "null"

\* C3: with time parsing on, a date is returned only if the token after the
\* date tokens is exactly four digits HHmm with HH in 0..23 and mm in 0..59.
C3_TimeTokenRequired ==
    (codecPc = "decoded" /\ codecIn.shouldParseTime /\ codecOut.kind = "date") =>
        /\ GrammarSufficient
        /\ Len(GrammarTimeToken) = 4
        /\ IsDecimalInteger(GrammarTimeToken)
        /\ HourOf(GrammarTimeToken) \in 0..23
        /\ MinuteOf(GrammarTimeToken) \in 0..59

\* the tokens the decoder reads as year, month and day: leading components of
\* the relative path, then leading tokens of the cleaned filename stem
ConsumedTokens ==
    LET pathParts == Split(codecPath.relativePath, {PathSep})
        parts     == Split(CleanDateStr(basename(codecPath.filename,
                                                 extname(codecPath.filename))), {"-", "_"})
        r         == RequiredDirs(codecIn.structure)
    IN  IF Len(pathParts) >= r /\ Len(parts) >= 3 - r
        THEN SubSeq(pathParts, 1, r) \o SubSeq(parts, 1, 3 - r)
        ELSE << >>

\* the token the decoder reads the time from, when there is one
ConsumedTimeToken ==
    LET parts == Split(CleanDateStr(basename(codecPath.filename,
                                             extname(codecPath.filename))), {"-", "_"})
        at    == 4 - RequiredDirs(codecIn.structure)
    IN  IF Len(parts) >= at THEN parts[at] ELSE << >>

\* C4: tokens that are in range but name no real calendar date decode to
\* null, and a returned date has exactly the year, month and day of its
\* tokens, and the hour and minute its time token spells (00:00 when the time
\* is not parsed).
C4_NoNormalizedDate ==
    codecPc = "decoded" =>
        LET toks == ConsumedTokens
            y    == parseInt(toks[1])
            m    == parseInt(toks[2])
            d    == parseInt(toks[3])
            f    == getUTCFields(codecOut.t)
        IN  /\ (Len(toks) = 3 /\ ~isNaN(y) /\ m \in 1..12 /\ d \in 1..31
                /\ d > DaysInMonth(y, m)) => codecOut.kind = "null"
            /\ codecOut.kind = "date" =>
                  /\ Len(toks) = 3
                  /\ f.year = y /\ f.month = m /\ f.day = d
                  /\ d <= DaysInMonth(y, m)
                  /\ ~codecIn.shouldParseTime => (f.hour = 0 /\ f.minute = 0)
                  /\ (codecIn.shouldParseTime /\ ~isNaN(HourOf(ConsumedTimeToken))) =>
                        f.hour = HourOf(ConsumedTimeToken)
                  /\ (codecIn.shouldParseTime /\ ~isNaN(MinuteOf(ConsumedTimeToken))) =>
                        f.minute = MinuteOf(ConsumedTimeToken)

\* a hand-made path naming 30 February was decoded, to null
C4_Witness ==
    /\ codecPc = "decoded"
    /\ codecIn.mode = "raw"
    /\ Len(ConsumedTokens) = 3
    /\ parseInt(ConsumedTokens[1]) = 2024
    /\ parseInt(ConsumedTokens[2]) = 2
    /\ parseInt(ConsumedTokens[3]) = 30
    /\ codecOut.kind = "null"

\* ------------------------------------------------------------------------
\* Properties of the range filter
\* ------------------------------------------------------------------------

IsValidDate(x) == x # Undefined /\ ~isNaN(x)

InRangeReturned == rangePc = "returned" /\ rangeIn.op = "isDateInRange"

CalcReturned == rangePc = "returned" /\ rangeIn.op = "calculateDateRange"

\* C5: for a range with valid bounds start <= end, isDateInRange is true
\* exactly when start <= date < end (start inclusive, end exclusive).
C5_HalfOpenRange ==
    (InRangeReturned /\ rangeIn.range.present
     /\ IsValidDate(rangeIn.range.start) /\ IsValidDate(rangeIn.range.end)
     /\ rangeIn.range.start <= rangeIn.range.end) =>
        (rangeOut.inRange <=>
            (rangeIn.range.start <= rangeIn.date /\ rangeIn.date < rangeIn.range.end))

\* a date equal to the end of a non-empty range was rejected
C5_Witness ==
    /\ InRangeReturned /\ rangeIn.range.present
    /\ IsValidDate(rangeIn.range.start) /\ IsValidDate(rangeIn.range.end)
    /\ rangeIn.range.start < rangeIn.range.end
    /\ rangeIn.date = rangeIn.range.end
    /\ ~rangeOut.inRange

\* C6: an absent range or a range with no bound accepts every date, and an
\* invalid bound is treated as absent: only the other bound is enforced.
C6_InvalidBoundIsAbsent ==
    InRangeReturned =>
        LET r == rangeIn.range
        IN  /\ (~r.present \/ (r.start = Undefined /\ r.end = Undefined)) => rangeOut.inRange
            /\ (r.present /\ ~IsValidDate(r.start) /\ ~IsValidDate(r.end)) => rangeOut.inRange
            /\ (r.present /\ ~IsValidDate(r.start) /\ IsValidDate(r.end)) =>
                  (rangeOut.inRange <=> rangeIn.date < r.end)
            /\ (r.present /\ IsValidDate(r.start) /\ ~IsValidDate(r.end)) =>
                  (rangeOut.inRange <=> rangeIn.date >= r.start)

\* a date before a valid end bound was accepted although the start bound is
\* an Invalid Date
C6_Witness ==
    /\ InRangeReturned /\ rangeIn.range.present
    /\ rangeIn.range.start = NaN /\ IsValidDate(rangeIn.range.end)
    /\ rangeIn.date < rangeIn.range.end
    /\ rangeOut.inRange

\* C7: each explicit bound overrides only its own default: end defaults to
\* now and start to now minus 31 days, whatever the other bound is.
C7_IndependentDefaults ==
    CalcReturned =>
        LET r == rangeOut.range
        IN  /\ (rangeIn.startDate = Undefined /\ rangeIn.endDate = Undefined) =>
                  (~r.threw /\ r.end = rangeIn.now
                   /\ r.start = rangeIn.now - DefaultWindowDays * MinutesPerDay)
            /\ ~r.threw =>
                  /\ r.start = (IF rangeIn.startDate = Undefined
                                THEN rangeIn.now - DefaultWindowDays * MinutesPerDay
                                ELSE rangeIn.startDate)
                  /\ r.end = (IF rangeIn.endDate = Undefined THEN rangeIn.now
                              ELSE rangeIn.endDate)

\* only an end bound other than now was supplied, and a range was returned
C7_Witness ==
    /\ CalcReturned
    /\ rangeIn.startDate = Undefined
    /\ IsValidDate(rangeIn.endDate) /\ rangeIn.endDate # rangeIn.now
    /\ ~rangeOut.range.threw
    /\ rangeOut.range.end = rangeIn.endDate

\* the bounds calculateDateRange resolves before it compares them
ResolvedStart == IF rangeIn.startDate = Undefined
                 THEN rangeIn.now - DefaultWindowDays * MinutesPerDay ELSE rangeIn.startDate

ResolvedEnd == IF rangeIn.endDate = Undefined THEN rangeIn.now ELSE rangeIn.endDate

\* C8: a returned range has start <= end; when the resolved end is strictly
\* before the resolved start the call raises an error instead of returning.
C8_RangeOrdered ==
    CalcReturned =>
        /\ ~rangeOut.range.threw =>
              (IsValidDate(rangeOut.range.start) /\ IsValidDate(rangeOut.range.end)
               /\ rangeOut.range.start <= rangeOut.range.end)
        /\ (IsValidDate(ResolvedStart) /\ IsValidDate(ResolvedEnd)
            /\ ResolvedEnd < ResolvedStart) => rangeOut.range.threw

\* only a start bound after now was supplied, and the call raised the error
C8_Witness ==
    /\ CalcReturned
    /\ rangeIn.endDate = Undefined
    /\ IsValidDate(rangeIn.startDate) /\ rangeIn.now < rangeIn.startDate
    /\ rangeOut.range.threw

\* ------------------------------------------------------------------------
\* Properties of the structured walk
\* ------------------------------------------------------------------------

WalkStarted == walkPc \in {"spawning", "running", "resolved"}

\* what decoding the path of a candidate file gives under the walk's options
WalkDecoded(filePath) ==
    parseDateFromFilePath(PathRelative(InputDir, filePath),
                          LastOf(Split(filePath, {PathSep})),
                          walkIn.structure, Includes(walkIn.inputFilenameOptions, "time"))

\* the file's date decodes and lies in [start, end) of the walk's range
DecodedInRange(filePath) ==
    /\ WalkDecoded(filePath).kind = "date"
    /\ dateRange.start <= WalkDecoded(filePath).t
    /\ WalkDecoded(filePath).t < dateRange.end

InvokedWith(filePath, date) ==
    \E k \in 1..Len(hostCalls) : hostCalls[k].file = filePath /\ hostCalls[k].date = date

\* C9: the callback is invoked for a candidate file exactly when the file's
\* date decodes and lies in [start, end), with the file's path and that date,
\* once; no other file reaches the callback or is counted.
C9_CallbackIffDecodedInRange ==
    WalkStarted =>
        /\ \A i \in 1..Len(considered) :
              DecodedInRange(considered[i])
                 <=> InvokedWith(considered[i], WalkDecoded(considered[i]).t)
        /\ \A k \in 1..Len(hostCalls) :
              \E i \in 1..Len(considered) :
                 /\ considered[i] = hostCalls[k].file
                 /\ DecodedInRange(considered[i])
                 /\ hostCalls[k].date = WalkDecoded(considered[i]).t
        /\ \A k, l \in 1..Len(hostCalls) : hostCalls[k].file = hostCalls[l].file => k = l
        /\ fileCount <= Len(hostCalls)
        /\ walkPc = "resolved" => walkResult <= Len(hostCalls)

\* a walk over one unparseable file and one in-range file resolved with
\* count 1 after exactly one invocation, for the in-range file
C9_Witness ==
    /\ walkPc = "resolved"
    /\ walkIn.structure = "none"
    /\ Len(considered) = 2
    /\ \E i \in 1..2 : considered[i] = PathJoin(<< InputDir, File4 >>)
    /\ Len(hostCalls) = 1
    /\ hostCalls[1].file = PathJoin(<< InputDir, File1 >>)
    /\ hostCalls[1].date = DateUTC(2023, 11, 15, 8, 30)
    /\ walkResult = 1

ReturnedInvocations == {k \in 1..Len(hostCalls) : hostCalls[k].state = "returned"}

\* C10 as stated: the count process() resolves with is the number of
\* invocations of the callback, whether they returned or threw.
C10_CountsEveryInvocation ==
    walkPc = "resolved" => walkResult = Len(hostCalls)

\* C10 as the code has it: the count process() resolves with is the number of
\* invocations of the callback that returned normally; an invocation that
\* threw is logged and not counted.
C10_CountsReturnedInvocations ==
    walkPc = "resolved" => walkResult = Cardinality(ReturnedInvocations)

\* a walk resolved after one invocation returned and another threw
C10_Witness ==
    /\ walkPc = "resolved"
    /\ \E k \in 1..Len(hostCalls) : hostCalls[k].state = "threw"
    /\ \E k \in 1..Len(hostCalls) : hostCalls[k].state = "returned"
    /\ walkResult = Cardinality(ReturnedInvocations)
    /\ errorsLogged >= 1

ThrownInvocations == {k \in 1..Len(hostCalls) : hostCalls[k].state = "threw"}

InFlightInvocations == {k \in 1..Len(hostCalls) : hostCalls[k].state = "inflight"}

\* the invocations that returned and whose worker has resumed since
CountedInvocations ==
    {k \in ReturnedInvocations :
        \A w \in DOMAIN workers : ~(workers[w].pc = "awaitHost" /\ workers[w].call = k)}

\* C11: a file whose callback invocation throws is not counted: at every
\* point the running count is the number of invocations that have completed
\* without throwing, and the resolved count is the invocations less the thrown.
C11_ThrownNotCounted ==
    WalkStarted =>
        /\ fileCount = Cardinality(CountedInvocations)
        /\ walkPc = "resolved" =>
              walkResult = Len(hostCalls) - Cardinality(ThrownInvocations)

\* a walk whose only invocation threw resolved with count 0
C11_Witness ==
    /\ walkPc = "resolved"
    /\ Len(hostCalls) = 1
    /\ hostCalls[1].state = "threw"
    /\ walkResult = 0

\* the paths of the first n enumerated files
EnumeratedPaths(n) == [i \in 1..n |-> PathJoin(<< InputDir, walkIn.files[i] >>)]

\* the number of candidates the walk is to consider
CandidateCount ==
    IF walkIn.limit # Undefined /\ walkIn.limit < Len(walkIn.files)
    THEN walkIn.limit ELSE Len(walkIn.files)

\* C12: once the callback has thrown for a file the walk still resolves, with
\* every candidate considered and the error logged; it does not reject.
C12_ThrowNeverAborts ==
    (ThrownInvocations # {}) ~>
        (/\ walkPc = "resolved"
         /\ considered = EnumeratedPaths(CandidateCount)
         /\ errorsLogged >= Cardinality(ThrownInvocations))

\* a walk with two workers resolved after the callback threw for one file
\* and was invoked for a later one
C12_Witness ==
    /\ walkPc = "resolved"
    /\ concurrency = 2
    /\ \E k \in 1..Len(hostCalls) :
          hostCalls[k].state = "threw" /\ k < Len(hostCalls)
    /\ considered = EnumeratedPaths(CandidateCount)

\* C13: with a limit L >= 1 exactly min(L, N) files, the first ones of the
\* enumeration, are handed to the per-file step whatever the filter accepts,
\* and the count does not exceed L.
C13_LimitBoundsConsidered ==
    (WalkStarted /\ walkIn.limit # Undefined) =>
        /\ Len(considered) <= CandidateCount
        /\ considered = EnumeratedPaths(Len(considered))
        /\ fileCount <= walkIn.limit
        /\ walkPc = "resolved" =>
              (considered = EnumeratedPaths(CandidateCount) /\ walkResult <= walkIn.limit)

\* a walk with limit 1 resolved with count 0 although an in-range file was
\* enumerated second
C13_Witness ==
    /\ walkPc = "resolved"
    /\ walkIn.limit = 1
    /\ walkIn.structure = "none"
    /\ walkIn.start = Undefined
    /\ walkIn.files = << File3, File5 >>
    /\ Len(considered) = 1
    /\ walkResult = 0

\* C26: a walk whose queue has been set up resolves if every callback
\* invocation settles, and it resolves with each of the first min(limit, N)
\* enumerated files considered exactly once, in the order of the enumeration;
\* no worker has left its loop while paths remain in the queue.
C26_WalkRunsToCompletion ==
    /\ [](\A w \in DOMAIN workers : workers[w].pc = "done" => fileQueue = << >>)
    /\ (walkPc = "spawning") ~>
           (/\ walkPc = "resolved"
            /\ fileQueue = << >>
            /\ considered = EnumeratedPaths(CandidateCount))

\* a walk of three files without a limit resolved with two workers, each file
\* considered once
C26_Witness ==
    /\ walkPc = "resolved"
    /\ concurrency = 2
    /\ walkIn.limit = Undefined
    /\ Len(walkIn.files) = MaxFiles
    /\ considered = EnumeratedPaths(MaxFiles)
    /\ \A w \in DOMAIN workers : workers[w].pc = "done"

\* the directory levels between the input directory and a file
DirLevels(filePath) == Len(Split(PathRelative(InputDir, filePath), {PathSep})) - 1

\* the callback was invoked for a file that lies under fewer directory levels
\* than the structure requires
ShallowInvocations ==
    {k \in 1..Len(hostCalls) : DirLevels(hostCalls[k].file) < RequiredDirs(walkIn.structure)}

\* C27: under a structure of the grammar, a file that lies under fewer
\* directory levels below the root than the structure requires is never
\* passed to the callback and never counted, with and without the time
\* option.
C27_ShallowFileNeverInvoked ==
    (WalkStarted /\ walkIn.structure \in Structures) =>
        /\ ShallowInvocations = {}
        /\ walkPc = "resolved" =>
              walkResult <= Cardinality({i \in 1..Len(considered) :
                                DirLevels(considered[i]) >= RequiredDirs(walkIn.structure)})

\* the concurrency the caller asked for, 1 when unset
RequestedConcurrency == IF walkIn.concurrency = Undefined THEN 1 ELSE walkIn.concurrency

AwaitingWorkers == {w \in DOMAIN workers : workers[w].pc \in {"awaitHost", "awaitSkipped"}}

\* C14: at most `concurrency` callback invocations are in flight; with
\* concurrency unset or 1 an invocation starts only after the previous one
\* has finished, and the files are taken in enumeration order.
C14_BoundedInFlight ==
    WalkStarted =>
        /\ Cardinality(InFlightInvocations) <= RequestedConcurrency
        /\ Cardinality(AwaitingWorkers) <= RequestedConcurrency
        /\ RequestedConcurrency = 1 =>
              /\ \A k \in 1..(Len(hostCalls) - 1) : hostCalls[k].state # "inflight"
              /\ considered = EnumeratedPaths(Len(considered))
              /\ \A k \in 1..Len(hostCalls) :
                    hostCalls[k].state = "inflight" => hostCalls[k].file = considered[Len(considered)]

\* two invocations are in flight in a walk with concurrency 2
C14_Witness ==
    /\ walkPc = "running"
    /\ walkIn.concurrency = 2
    /\ Cardinality(InFlightInvocations) = 2

\* C15: no path is handed to the per-file callback more than once, whatever
\* the number of workers and their interleaving: a path taken by a worker is
\* no longer in the queue.
C15_NoPathTwice ==
    WalkStarted =>
        /\ \A i, j \in 1..Len(considered) : considered[i] = considered[j] => i = j
        /\ \A i \in 1..Len(considered), q \in 1..Len(fileQueue) :
              considered[i] # PathJoin(<< InputDir, fileQueue[q] >>)
        /\ \A v, w \in DOMAIN workers :
              (v # w /\ workers[v].pc \in {"awaitHost", "awaitSkipped"}
               /\ workers[w].pc \in {"awaitHost", "awaitSkipped"})
                 => workers[v].file # workers[w].file

\* two workers hold different paths while a third path is still queued
C15_Witness ==
    /\ walkPc = "running"
    /\ concurrency = 2
    /\ Cardinality(AwaitingWorkers) = 2
    /\ Len(fileQueue) = 1

\* C16: a structured process() call given an unrecognized structure does not
\* resolve with a count (it rejects).
C16_UnknownStructureRejects ==
    walkIn.structure \notin Structures => walkPc # "resolved"

\* ------------------------------------------------------------------------
\* Properties of the filename constructor
\* ------------------------------------------------------------------------

NameSettled == namePc \in {"returned", "threw"}

\* the filename-option set of the configuration: the entries of its list,
\* none when no list is configured
ActiveOptions ==
    IF "outputFilenameOptions" \in DOMAIN nameIn.config
    THEN { nameIn.config.outputFilenameOptions[i] :
              i \in 1..Len(nameIn.config.outputFilenameOptions) }
    ELSE {}

IdentifierAndType == HashStr \o DashStr \o TypeStr

\* C17: with an empty or unset filename-option set constructFilename returns
\* exactly identifier-typeTag, for every date, structure and subject.
C17_NoOptionsIsIdentifierType ==
    (NameSettled /\ ActiveOptions = {}) =>
        (namePc = "returned" /\ nameOut = Success(IdentifierAndType))

\* no option list is configured, the structure is 'day' and a subject is
\* passed: the filename is identifier-typeTag
C17_Witness ==
    /\ namePc = "returned"
    /\ "outputFilenameOptions" \notin DOMAIN nameIn.config
    /\ nameIn.config.outputStructure = "day"
    /\ nameIn.options = [subject |-> << "a" >>]
    /\ nameOut.value = << "a", "b", "1", "-", "e", "m", "l" >>

\* what a date fragment can be for the call's date and timezone
DateFragments ==
    { DatesFormat(nameIn.date, nameIn.config.timezone, fmt) : fmt \in {"YYYY-M-D", "M-D", "D"} }

TimeFragment == DatesFormat(nameIn.date, nameIn.config.timezone, "HHmm")

SubjectFragment == sanitizeFilenameString(SubjectOrEmpty(nameIn.options))

Fragment(present, str) == IF present THEN << str >> ELSE << >>

\* C18: the fragments of a generated filename are in the order date, time,
\* identifier, typeTag, subject, joined with '-', whatever the order or
\* repetition of the entries of the option list; identifier and typeTag are
\* always there and an optional fragment is there exactly when its option is
\* in the set.
C18_FixedFragmentOrder ==
    namePc = "returned" =>
        \E dateStr \in DateFragments :
            nameOut.value =
                Join(Fragment("date" \in ActiveOptions, dateStr)
                     \o Fragment("time" \in ActiveOptions, TimeFragment)
                     \o << HashStr, TypeStr >>
                     \o Fragment("subject" \in ActiveOptions, SubjectFragment),
                     DashStr)

\* the list names subject twice and before date: 2024-6-15-ab1-eml-a
C18_Witness ==
    /\ namePc = "returned"
    /\ nameIn.config.outputStructure = "none"
    /\ "outputFilenameOptions" \in DOMAIN nameIn.config
    /\ nameIn.config.outputFilenameOptions = << "subject", "date", "subject" >>
    /\ nameIn.options = [subject |-> << "a" >>]
    /\ nameOut.value = << "2", "0", "2", "4", "-", "6", "-", "1", "5", "-",
                          "a", "b", "1", "-", "e", "m", "l", "-", "a" >>

\* where identifier-typeTag ends in a filename
IdentifierEnd(str) ==
    CHOOSE i \in Len(IdentifierAndType)..Len(str) :
        /\ SubSeq(str, i - Len(IdentifierAndType) + 1, i) = IdentifierAndType
        /\ \A j \in Len(IdentifierAndType)..(i - 1) :
              SubSeq(str, j - Len(IdentifierAndType) + 1, j) # IdentifierAndType

\* what follows identifier-typeTag- in the filename
SubjectPosition == SubSeq(nameOut.value, IdentifierEnd(nameOut.value) + 2, Len(nameOut.value))

\* what precedes identifier-typeTag in the filename
BeforeIdentifier ==
    SubSeq(nameOut.value, 1, IdentifierEnd(nameOut.value) - Len(IdentifierAndType))

SubjectRequested == namePc = "returned" /\ "subject" \in ActiveOptions

SuppliedSubject == SubjectOrEmpty(nameIn.options)

\* the supplied subject is absent, empty or without a letter or digit
NoAlphanumeric == \A i \in 1..Len(SuppliedSubject) : ~IsAlnum(SuppliedSubject[i])

\* the supplied subject is absent, empty or without a character that the
\* sanitizer keeps: a letter, a digit, '-' or '.'
NothingKept ==
    \A i \in 1..Len(SuppliedSubject) :
        ~IsAlnum(SuppliedSubject[i]) /\ SuppliedSubject[i] \notin {"-", "."}

CfgPassed == cfgPc \in {"resolved", "constructed"}

OutputDateWithDay ==
    /\ Includes(ListOf(cfgIn.config, "outputFilenameOptions"), "date")
    /\ cfgIn.config.outputStructure = "day"

InputDateWithDay ==
    /\ Includes(ListOf(cfgIn.config, "inputFilenameOptions"), "date")
    /\ cfgIn.config.inputStructure = "day"

DateDayError == "Cannot use date in filename when output structure is day"

\* C21: validate() rejects every configuration that has `date` among its
\* output filename options with output structure 'day', and likewise for the
\* input options and structure, so constructFilename under a configuration
\* that passed never fails with the date/day error.
C21_DateDayRejectedAtValidation ==
    CfgPassed =>
        /\ ~OutputDateWithDay
        /\ ~InputDateWithDay
        /\ cfgPc = "constructed" => ~(cfgOut.name.threw /\ cfgOut.name.error = DateDayError)

\* C30: with the `input` feature and an inputDirectory that is not a
\* readable directory, validate() throws 'Input directory does not exist'.
C30_UnreadableInputRejected ==
    (/\ cfgPc \notin {"idle", "call", "awaitInputDirectory"}
     /\ "input" \in cfgIn.features
     /\ cfgIn.timezoneValid
     /\ ~cfgIn.inputReadable)
        => (cfgPc = "rejected" /\ cfgErr.message = "Input directory does not exist")

\* the year, month and day of the date in the configured timezone
FullDate ==
    << DatesFormat(cfgIn.date, cfgIn.config.timezone, "YYYY"),
       DatesFormat(cfgIn.date, cfgIn.config.timezone, "M"),
       DatesFormat(cfgIn.date, cfgIn.config.timezone, "D") >>

\* the directories of the output path below the root
DirTokens ==
    IF cfgOut.dir.value = cfgIn.config.outputDirectory THEN << >>
    ELSE Split(PathRelative(cfgIn.config.outputDirectory, cfgOut.dir.value), {PathSep})

\* what precedes identifier-typeTag in the generated filename, as tokens
PrefixTokens ==
    IF IdentifierEnd(cfgOut.name.value) = Len(IdentifierAndType) THEN << >>
    ELSE Split(SubSeq(cfgOut.name.value, 1,
                      IdentifierEnd(cfgOut.name.value) - Len(IdentifierAndType) - 1), {"-"})

\* the tokens of the filename's date fragment: the prefix less the time
NameDateTokens ==
    IF Includes(ListOf(cfgIn.config, "outputFilenameOptions"), "time")
    THEN SubSeq(PrefixTokens, 1, Len(PrefixTokens) - 1)
    ELSE PrefixTokens

\* validate() passed and the output constructor gave a directory and a name
\* for one of the four structures
OutputNamed ==
    /\ cfgPc = "constructed"
    /\ cfgIn.config.outputStructure \in Structures
    /\ ~cfgOut.dir.threw
    /\ ~cfgOut.name.threw

DateRequested == Includes(ListOf(cfgIn.config, "outputFilenameOptions"), "date")

DirDateComponents ==
    << DatesFormat(dirIn.creationTime, dirIn.config.timezone, "YYYY"),
       DatesFormat(dirIn.creationTime, dirIn.config.timezone, "M"),
       DatesFormat(dirIn.creationTime, dirIn.config.timezone, "D") >>

\* C22: constructOutputDirectory returns the root with 0, 1, 2 or 3 date
\* components appended for none, year, month, day, in the order year, month,
\* day, taken from the date in the configured timezone, and that path is the
\* one it asks the directory creator to create.
C22_RootPlusDateComponents ==
    (dirPc = "returned" /\ dirIn.config.outputStructure \in Structures) =>
        /\ dirOut.value =
              PathJoin(<< dirIn.config.outputDirectory >>
                       \o SubSeq(DirDateComponents, 1, RequiredDirs(dirIn.config.outputStructure)))
        /\ Len(mkdirs) = 1
        /\ mkdirs[1].path = dirOut.value

\* structure 'day' for 2023-12-31 23:59 UTC at UTC+5:30: /d/2024/1/1
C22_Witness ==
    /\ dirPc = "returned"
    /\ dirIn.config.outputStructure = "day"
    /\ dirIn.config.timezone = 330
    /\ dirOut.value = << "/", "d", "/", "2", "0", "2", "4", "/", "1", "/", "1" >>
    /\ mkdirs[1].path = dirOut.value

\* C23: without a configured root or without a configured structure
\* constructOutputDirectory throws, requests no directory creation and
\* returns no path.
C23_MissingConfigurationThrows ==
    (/\ dirPc \in {"returned", "threw"}
     /\ (dirIn.config.outputDirectory = << >> \/ dirIn.config.outputStructure = Unset))
        => (dirPc = "threw" /\ dirOut.threw /\ dirOut.value = << >> /\ mkdirs = << >>)

\* the call threw for a configured root without a structure
C23_Witness ==
    /\ dirPc = "threw"
    /\ dirIn.config.outputDirectory = RootDir
    /\ dirIn.config.outputStructure = Unset
    /\ dirOut.error = "Unable to Create Output: Output structure is not set"
    /\ mkdirs = << >>

\* C25: whenever constructOutputDirectory has returned a path, the creation
\* of that path has completed successfully.
C25_CreatedBeforeReturn ==
    dirPc = "returned" => (Len(mkdirs) = 1 /\ mkdirs[1].state = "created")

\* ------------------------------------------------------------------------
\* Properties of the sanitizer
\* ------------------------------------------------------------------------

SafeChar(c) == IsAlnum(c) \/ c \in {".", "_", "-"}

\* C29: the sanitized string is not empty, holds only characters of
\* [A-Za-z0-9._-], holds no two consecutive underscores and neither starts
\* nor ends with an underscore; sanitizing it again returns it unchanged.
C29_SanitizedAndIdempotent ==
    /\ \A k \in 1..Len(sanOut) :
          LET out == sanOut[k]
          IN  /\ Len(out) > 0
              /\ \A i \in 1..Len(out) : SafeChar(out[i])
              /\ \A i \in 1..(Len(out) - 1) : ~(out[i] = "_" /\ out[i + 1] = "_")
              /\ out[1] # "_"
              /\ out[Len(out)] # "_"
    /\ sanPc = "resanitized" => sanOut[2] = sanOut[1]

\* a string in which a run of replaced characters became one underscore,
\* sanitized twice
C29_Witness ==
    /\ sanPc = "resanitized"
    /\ sanIn = << "a", "!", " ", "7" >>
    /\ sanOut = << << "a", "_", "7" >>, << "a", "_", "7" >> >>

\* ------------------------------------------------------------------------
\* Properties of forEachFileIn
\* ------------------------------------------------------------------------

FeSettled == fePc \in {"fulfilled", "rejected"}

\* callback invocations whose promise is pending
InFlightCallbacks == {k \in 1..Len(feCalls) : feCalls[k].state = "inflight"}

\* workers that are still in their loop
LiveWorkers == {w \in 1..Len(feWorkers) : feWorkers[w].pc = "await"}

\* C28: once the promise of forEachFileIn has settled no callback invocation
\* is in flight and no worker is left in its loop to start another one.
C28_QuietOnceSettled ==
    FeSettled => (InFlightCallbacks = {} /\ LiveWorkers = {})

====
